---- MODULE Spec2Model ----
(***************************************************************************)
(* Credential issuance and validation of ags-backend.                      *)
(*                                                                         *)
(* Two state machines share the variables below.                           *)
(*   Spec     the session subsystem: the gin chains built by the           *)
(*            RegisterRoutes functions, the GetUser middleware, the         *)
(*            session handlers (Google exchange revision) and the          *)
(*            RedisMongo session repository.                               *)
(*   SpecCred the same chains with the credential-lookup revision of       *)
(*            Handler.CreateSession / RedisMongo.CreateSession.            *)
(*   SpecDev  the device-token handlers of the controller package.         *)
(*                                                                         *)
(* Strings whose content the code inspects (cookie values, access codes)   *)
(* are sequences of one-character strings, so that strings.TrimSpace is a  *)
(* computation.  A uuid string is abstracted to a one-character string.    *)
(* A store call that returns an error is modelled as not applied.          *)
(* The passage of time is abstracted: a key with a TTL may expire at any   *)
(* moment after it is set.                                                 *)
(***************************************************************************)
EXTENDS Integers, Sequences, FiniteSets, TLC

VARIABLES
    sessionDb,    \* RedisMongo.SessionDb: session id -> user id (keys with a TTL)
    userDb,       \* RedisMongo.UserDb: _id -> user document
    uuidCount,    \* how many values uuid.New() has handed out
    req,          \* the requests in flight, one gin.Context each
    sessionFate,  \* history: what became of each session id ever set
    controllerCol, \* controller.MongoRepo.Col: _id -> controller document
    issued,       \* history: per controller, the plaintext tokens in the
                  \* order their digests were stored
    planCol       \* plan.MongoRepo.Col: _id -> plan document

vars == <<sessionDb, userDb, uuidCount, req, sessionFate, controllerCol, issued, planCol>>

----------------------------------------------------------------------------
(* Bounds *)

\* uuid.New() is called at most MaxUuid times in a behaviour
MaxUuid == 2

\* number of requests that may be in flight together
MaxReq == 2

Reqs == 1..MaxReq

----------------------------------------------------------------------------
(* Strings *)

Digits == <<"1", "2", "3", "4", "5", "6", "7", "8", "9">>

\* the n-th value of uuid.New().String()
UuidStr(n) == <<Digits[n]>>

Uuids == {UuidStr(n) : n \in 1..MaxUuid}

IsSpace(c) == c \in {" ", "\t"}

RECURSIVE TrimLeft(_)
TrimLeft(s) ==
    IF s # <<>> /\ IsSpace(Head(s)) THEN TrimLeft(Tail(s)) ELSE s

RECURSIVE TrimRight(_)
TrimRight(s) ==
    IF s # <<>> /\ IsSpace(s[Len(s)]) THEN TrimRight(SubSeq(s, 1, Len(s) - 1)) ELSE s

\* TrimSpace with a fault: the value is used untrimmed
TrimSpaceNone(s) == s

\* strings.TrimSpace
TrimSpace(s) == TrimRight(TrimLeft(s))

\* the values a client may send as the sessionId cookie: blank ones, one that
\* is no session id, and the uuids handed out so far (a uuid cannot be guessed)
CookieValues == {<<>>, <<" ">>, <<" ", "z">>} \cup Uuids

Known(count) == {<<>>, <<" ">>, <<" ", "z">>} \cup {UuidStr(n) : n \in 1..count}

\* what ctx.Cookie("sessionId") sees: no cookie at all, or a value
Cookies ==
    {[present |-> FALSE, value |-> <<>>]}
        \cup {[present |-> TRUE, value |-> v] : v \in CookieValues}

NoCookie == [present |-> FALSE, value |-> <<>>]

\* the access codes a client may post; "a" and "b" are codes Google issued
AccessCodes == {<<" ">>, <<"x">>, <<"a">>, <<"b">>}

UserIds == {"u1", "u2"}

----------------------------------------------------------------------------
(* Response messages *)

resCreate == "session created"
resDelete == "session deleted"
resInvalid == "bad format"
resInternal == "not your fault, internal error"
resNotAuth == "not authorized"

StatusOK == 200
StatusCreated == 201
StatusBadRequest == 400
StatusUnauthorized == 401
StatusNotFound == 404
StatusInternalServerError == 500

\* seconds, the max-age of the sessionId cookie
CookieMaxAge == 28800

----------------------------------------------------------------------------
(* The stores *)

\* redis SET key value EX ttl
RedisSet(db, k, v) == [x \in DOMAIN db \cup {k} |-> IF x = k THEN v ELSE db[x]]

\* RedisDel with a fault: the key is blanked, not removed
RedisDelTombstone(db, k) == IF k \in DOMAIN db THEN [db EXCEPT ![k] = ""] ELSE db

\* redis DEL key: removing an absent key is not an error
RedisDel(db, k) == [x \in DOMAIN db \ {k} |-> db[x]]

\* redis GET key: redis.Nil when the key is absent
RedisGet(db, k, fault) ==
    IF fault THEN [err |-> "redis: connection error", val |-> ""]
    ELSE IF k \notin DOMAIN db THEN [err |-> "redis.Nil", val |-> ""]
    ELSE [err |-> "nil", val |-> db[k]]

\* mongo ReplaceOne(filter {_id}, doc, upsert)
MongoUpsert(col, id, doc) ==
    [x \in DOMAIN col \cup {id} |-> IF x = id THEN doc ELSE col[x]]

Empty == [x \in {} |-> ""]

----------------------------------------------------------------------------
(* The Google token endpoint and GoogleApi.GetIdToken *)

EmptyUser == [UserId |-> "", Name |-> "", Password |-> ""]

\* the id_token claims Google returns for an authorization code, if any
GoogleClaims(code) ==
    IF code = <<"a">> THEN [ok |-> TRUE, sub |-> "u1", name |-> "n1"]
    ELSE IF code = <<"b">> THEN [ok |-> TRUE, sub |-> "u2", name |-> "n2"]
    ELSE [ok |-> FALSE, sub |-> "", name |-> ""]

\* GoogleApi.GetIdToken: the PostForm may fail; a response without an
\* id_token makes jwt.Parse return a nil token and its error
GetIdToken(code, fault) ==
    IF fault THEN [err |-> "http error", user |-> EmptyUser]
    ELSE IF ~GoogleClaims(code).ok
         THEN [err |-> "token contains an invalid number of segments",
               user |-> EmptyUser]
    ELSE [err |-> "nil",
          user |-> [UserId |-> GoogleClaims(code).sub,
                    Name |-> GoogleClaims(code).name,
                    Password |-> ""]]

----------------------------------------------------------------------------
(* The session repository, RedisMongo *)

\* RedisMongo.GetUser
RepoGetUser(db, sessionId, fault) ==
    LET res == RedisGet(db, sessionId, fault) IN
    IF res.err # "nil"
    THEN IF res.err = "redis.Nil"
         THEN [err |-> "errNotFound", userId |-> ""]
         ELSE [err |-> res.err, userId |-> ""]
    ELSE [err |-> "nil", userId |-> res.val]

\* the document RedisMongo.CreateSession upserts
UserDoc(userEntity) == [id |-> userEntity.UserId, name |-> userEntity.Name]

----------------------------------------------------------------------------
(* Routes: the chains the RegisterRoutes functions build *)

ProtectedGroups == {"controller", "plan", "data", "summary"}

Routes == ProtectedGroups \cup {"session.POST", "session.DELETE"}

\* Chain with a fault: the data group is registered without the middleware
ChainUngatedData(route) ==
    IF route \in ProtectedGroups \ {"data"} THEN <<"GetUser", "Handler">>
    ELSE IF route = "data" THEN <<"Handler">>
    ELSE IF route = "session.POST" THEN <<"CreateSession">>
    ELSE <<"DeleteSession">>

\* the handlers of a route, in the order gin runs them
Chain(route) ==
    IF route \in ProtectedGroups THEN <<"GetUser", "Handler">>
    ELSE IF route = "session.POST" THEN <<"CreateSession">>
    ELSE <<"DeleteSession">>

----------------------------------------------------------------------------
(* Requests *)

\* a JSON body of AddController / UpdateController; a key that is not in the
\* body holds the empty value
NoCtlBody == [name |-> <<>>, desc |-> "", plan |-> "", controller_id |-> "", UserId |-> ""]

\* controller.Entity, zero valued
NoEntity == [ControllerId |-> "", UserId |-> "", Name |-> <<>>, Desc |-> "", Plan |-> ""]

\* no plan body, and the plan Entity before a handler fills it
NoPlanBody == [plan_id |-> "", name |-> <<>>]
NoPlanEntity == [PlanId |-> "", UserId |-> "", Name |-> <<>>]

NoResponse == [status |-> 0, message |-> "", details |-> "",
               setCookie |-> FALSE, cookieValue |-> <<>>, maxAge |-> 0,
               session |-> <<>>,     \* "session" of the credential revision's 201
               entities |-> {},      \* the controller entities of the body
               token_id |-> <<>>,    \* "token_id" of GenerateToken's 200
               controller_id |-> ""] \* "controller_id" of AddController's 201

IdleReq ==
    [pc |-> "idle", chain |-> <<>>, aborted |-> FALSE,
     cookie |-> NoCookie, code |-> <<>>,
     body |-> EmptyUser,        \* the JSON body of a credential login
     param |-> "",              \* ctx.Param("controllerId")
     token |-> <<>>,            \* "token" of the JSON body of a verification
     ctlBody |-> NoCtlBody,     \* the JSON body of AddController / UpdateController
     planBody |-> NoPlanBody,   \* the JSON body of ReplacePlan
     planEntity |-> NoPlanEntity, \* the plan Entity passed to the repository
     entity |-> NoEntity,       \* the Entity the handler passed to the repository
     tokenId |-> <<>>,          \* the plaintext GenerateToken drew
     hashedToken |-> <<>>,      \* its digest
     keys |-> Empty,            \* gin.Context.Keys
     userEntity |-> EmptyUser, sessionId |-> <<>>,
     resp |-> NoResponse,
     \* history of this request
     gated |-> FALSE,      \* GetUser has run
     lookups |-> 0,        \* calls made to the session store
     fault |-> FALSE,      \* the store call met a transport failure
     storeErr |-> "",      \* what the store answered to the lookup
     fate |-> "",          \* the fate of the presented id when it was looked up
     resolved |-> "",      \* the owner the store held for the presented id
     ran |-> FALSE,        \* the group's handler has run
     seenUserId |-> "",    \* the userId that handler read
     exchanges |-> 0,      \* calls made to the identity exchange
     exchangeErr |-> "",   \* what the identity exchange returned
     examined |-> 0,       \* bytes of the digest the comparison has read
     op |-> "",            \* the token handler that has run
     latest |-> <<>>]      \* the plaintext last issued for the controller when
                           \* the token handler reached the store

JSON(status, message) ==
    [NoResponse EXCEPT !.status = status, !.message = message]

Init ==
    /\ sessionDb = Empty
    /\ userDb = Empty
    /\ uuidCount = 0
    /\ req = [r \in Reqs |-> IdleReq]
    /\ sessionFate = Empty
    /\ controllerCol = Empty
    /\ issued = Empty
    /\ planCol = Empty

\* a request reaches the engine
Arrive(r, route, cookie, code) ==
    /\ req[r].pc = "idle"
    /\ cookie.value \in Known(uuidCount)
    /\ req' = [req EXCEPT ![r] = [IdleReq EXCEPT !.pc = "chain", !.chain = Chain(route),
                                     !.cookie = cookie, !.code = code]]
    /\ UNCHANGED <<sessionDb, userDb, uuidCount, sessionFate, controllerCol, issued, planCol>>

\* the handler gin runs next for request r, "" when the chain is over or aborted
NextHandler(r) ==
    IF req[r].pc = "chain" /\ ~req[r].aborted /\ req[r].chain # <<>>
    THEN Head(req[r].chain)
    ELSE ""

\* what became of a session id: "never" set, "live", "deleted" or "expired"
Fate(sessionId) ==
    IF sessionId \in DOMAIN sessionFate THEN sessionFate[sessionId] ELSE "never"

\* ctx.AbortWithStatusJSON
AbortWithStatusJSON(c, status, message) ==
    [c EXCEPT !.aborted = TRUE, !.resp = JSON(status, message)]

\* ctx.Set
CtxSet(c, key, value) == [c EXCEPT !.keys = RedisSet(@, key, value)]

\* GateStatus with a fault: every repository error is answered 401
GateStatusAlways401(err) == StatusUnauthorized

\* the status Handler.GetUser aborts with when the repository returns err
GateStatus(err) ==
    IF err = "errNotFound" THEN StatusUnauthorized ELSE StatusInternalServerError

\* the message Handler.GetUser aborts with when the repository returns err
GateMessage(err) == IF err = "errNotFound" THEN resNotAuth ELSE resInternal

\* Handler.GetUser, the middleware
GetUser(r, fault) ==
    /\ NextHandler(r) = "GetUser"
    /\ LET sessionId == req[r].cookie.value
           cookieErr == ~req[r].cookie.present
           c == [req[r] EXCEPT !.chain = Tail(@), !.gated = TRUE]
           looked == [c EXCEPT !.lookups = @ + 1, !.fault = fault,
                              !.storeErr = RedisGet(sessionDb, sessionId, fault).err,
                              !.fate = Fate(sessionId),
                              !.resolved = IF sessionId \in DOMAIN sessionDb
                                           THEN sessionDb[sessionId] ELSE ""]
       IN IF cookieErr \/ TrimSpace(sessionId) = <<>>
          THEN req' = [req EXCEPT ![r] =
                          AbortWithStatusJSON(c, StatusUnauthorized, resNotAuth)]
          ELSE LET res == RepoGetUser(sessionDb, sessionId, fault) IN
               IF res.err # "nil"
               THEN req' = [req EXCEPT ![r] =
                        AbortWithStatusJSON(looked, GateStatus(res.err), GateMessage(res.err))]
               ELSE req' = [req EXCEPT ![r] = CtxSet(looked, "userId", res.userId)]
    /\ UNCHANGED <<sessionDb, userDb, uuidCount, sessionFate, controllerCol, issued, planCol>>

\* getUserId: the userId a handler reads from the context
getUserId(keys) ==
    IF "userId" \notin DOMAIN keys THEN [err |-> "keyNotFound", userId |-> ""]
    ELSE [err |-> "nil", userId |-> keys["userId"]]

\* a handler of a protected group: it reads the userId and answers
Handler(r) ==
    /\ NextHandler(r) = "Handler"
    /\ LET u == getUserId(req[r].keys) IN
       IF u.err # "nil"
       THEN req' = [req EXCEPT ![r].resp = JSON(StatusInternalServerError, "not your fault, don't worry"),
                               ![r].chain = Tail(@), ![r].ran = TRUE]
       ELSE req' = [req EXCEPT ![r].resp = JSON(StatusOK, u.userId),
                               ![r].chain = Tail(@), ![r].ran = TRUE,
                               ![r].seenUserId = u.userId]
    /\ UNCHANGED <<sessionDb, userDb, uuidCount, sessionFate, controllerCol, issued, planCol>>

\* AccessCodeValidation with a fault: every access code is accepted
AccessCodeValidationAny(code) == TRUE

\* AccessCodeValidation: the access code is not blank
AccessCodeValidation(code) == TrimSpace(code) # <<>>

\* the n-th uuid is handed out only once
NewUuid(count) == UuidStr(count + 1)

\* Handler.CreateSession: the answer to an error of GoogleRepo.GetIdToken
ExchangeResponse(err) ==
    IF err = "errBadCode" THEN JSON(StatusBadRequest, resInvalid)
    ELSE [JSON(StatusInternalServerError, resInternal) EXCEPT !.details = "google exchange"]

\* CreateSessionResponse with a fault: the repository's error is ignored
CreateSessionResponseIgnoresErr(err, sessionId) ==
    [JSON(StatusCreated, resCreate) EXCEPT !.setCookie = TRUE,
                                           !.cookieValue = sessionId,
                                           !.maxAge = CookieMaxAge]

\* Handler.CreateSession: the answer once Repo.CreateSession has returned err
CreateSessionResponse(err, sessionId) ==
    IF err # "nil"
    THEN [JSON(StatusInternalServerError, resInternal) EXCEPT !.details = err]
    ELSE [JSON(StatusCreated, resCreate) EXCEPT !.setCookie = TRUE,
                                                !.cookieValue = sessionId,
                                                !.maxAge = CookieMaxAge]

\* the value RedisMongo.CreateSession stores under the session id
SessionValue(userEntity) == userEntity.UserId

\* Handler.CreateSession up to and including the identity upsert of
\* RedisMongo.CreateSession (UserDb.ReplaceOne with upsert)
CreateSession(r, gfault, mfault) ==
    /\ NextHandler(r) = "CreateSession"
    /\ LET request == req[r].code
           bindErr == ~AccessCodeValidation(request)
           ex == GetIdToken(request, gfault)
           sessionId == NewUuid(uuidCount)
       IN IF bindErr
          THEN /\ req' = [req EXCEPT ![r].resp = JSON(StatusBadRequest, resInvalid),
                                     ![r].chain = Tail(@)]
               /\ UNCHANGED <<userDb, uuidCount>>
          ELSE IF ex.err # "nil"
          THEN /\ req' = [req EXCEPT ![r].resp = ExchangeResponse(ex.err),
                                     ![r].chain = Tail(@), ![r].exchanges = @ + 1,
                                     ![r].exchangeErr = ex.err]
               /\ UNCHANGED <<userDb, uuidCount>>
          ELSE /\ uuidCount < MaxUuid
               /\ uuidCount' = uuidCount + 1
               /\ IF mfault
                  THEN /\ req' = [req EXCEPT
                            ![r].resp = CreateSessionResponse("mongo error", sessionId),
                            ![r].chain = Tail(@), ![r].exchanges = @ + 1,
                            ![r].exchangeErr = ex.err,
                            ![r].userEntity = ex.user, ![r].sessionId = sessionId,
                            ![r].fault = TRUE, ![r].storeErr = "mongo error"]
                       /\ UNCHANGED userDb
                  ELSE /\ userDb' = MongoUpsert(userDb, ex.user.UserId, UserDoc(ex.user))
                       /\ req' = [req EXCEPT ![r].pc = "CreateSession.Set",
                                      ![r].exchanges = @ + 1,
                                      ![r].exchangeErr = ex.err,
                                      ![r].userEntity = ex.user,
                                      ![r].sessionId = sessionId]
    /\ UNCHANGED <<sessionDb, sessionFate, controllerCol, issued, planCol>>

\* the rest of RedisMongo.CreateSession (SessionDb.Set with an 8 hour TTL)
\* and of Handler.CreateSession (the cookie and the 201)
CreateSessionSet(r, fault) ==
    /\ req[r].pc = "CreateSession.Set"
    /\ IF fault
       THEN /\ req' = [req EXCEPT ![r].pc = "chain", ![r].chain = Tail(@),
                         ![r].fault = TRUE, ![r].storeErr = "redis error",
                         ![r].resp = CreateSessionResponse("redis error", req[r].sessionId)]
            /\ UNCHANGED <<sessionDb, sessionFate>>
       ELSE /\ sessionDb' = RedisSet(sessionDb, req[r].sessionId,
                                     SessionValue(req[r].userEntity))
            /\ sessionFate' = RedisSet(sessionFate, req[r].sessionId, "live")
            /\ req' = [req EXCEPT ![r].pc = "chain", ![r].chain = Tail(@),
                         ![r].resp = CreateSessionResponse("nil", req[r].sessionId)]
    /\ UNCHANGED <<userDb, uuidCount, controllerCol, issued, planCol>>

\* RepoDeleteSession with a fault: nothing is removed
RepoDeleteSessionNoop(db, sessionId, fault) ==
    IF fault THEN [err |-> "redis: connection error", db |-> db]
    ELSE [err |-> "nil", db |-> db]

\* RepoDeleteSession with a fault: removing an absent key is an error
RepoDeleteSessionStrict(db, sessionId, fault) ==
    IF fault THEN [err |-> "redis: connection error", db |-> db]
    ELSE IF sessionId \notin DOMAIN db THEN [err |-> "errNotFound", db |-> db]
    ELSE [err |-> "nil", db |-> RedisDel(db, sessionId)]

\* RedisMongo.DeleteSession
RepoDeleteSession(db, sessionId, fault) ==
    IF fault THEN [err |-> "redis: connection error", db |-> db]
    ELSE [err |-> "nil", db |-> RedisDel(db, sessionId)]

\* Handler.DeleteSession
DeleteSession(r, fault) ==
    /\ NextHandler(r) = "DeleteSession"
    /\ LET sessionId == req[r].cookie.value
           cookieErr == ~req[r].cookie.present
           res == RepoDeleteSession(sessionDb, sessionId, fault)
       IN IF cookieErr \/ TrimSpace(sessionId) = <<>>
          THEN /\ req' = [req EXCEPT ![r].resp = JSON(StatusBadRequest, resInvalid),
                                     ![r].chain = Tail(@)]
               /\ UNCHANGED <<sessionDb, sessionFate>>
          ELSE IF res.err # "nil"
          THEN /\ req' = [req EXCEPT ![r].resp = JSON(StatusInternalServerError, resInternal),
                                     ![r].chain = Tail(@), ![r].lookups = @ + 1,
                                     ![r].fault = fault, ![r].storeErr = res.err]
               /\ UNCHANGED <<sessionDb, sessionFate>>
          ELSE /\ sessionDb' = res.db
               /\ sessionFate' = IF sessionId \in DOMAIN sessionDb
                                  THEN RedisSet(sessionFate, sessionId, "deleted")
                                  ELSE sessionFate
               /\ req' = [req EXCEPT
                            ![r].resp = [JSON(StatusOK, resDelete)
                                            EXCEPT !.setCookie = TRUE,
                                                   !.cookieValue = <<>>,
                                                   !.maxAge = CookieMaxAge],
                            ![r].chain = Tail(@), ![r].lookups = @ + 1,
                            ![r].fate = Fate(sessionId)]
    /\ UNCHANGED <<userDb, uuidCount, controllerCol, issued, planCol>>

\* the session store drops a key whose TTL has run out
Expire(k) ==
    /\ k \in DOMAIN sessionDb
    /\ sessionDb' = RedisDel(sessionDb, k)
    /\ sessionFate' = RedisSet(sessionFate, k, "expired")
    /\ UNCHANGED <<userDb, uuidCount, req, controllerCol, issued, planCol>>

\* the chain is over: the response is written and the context released
Respond(r) ==
    /\ req[r].pc = "chain"
    /\ NextHandler(r) = ""
    /\ req' = [req EXCEPT ![r] = IdleReq]
    /\ UNCHANGED <<sessionDb, userDb, uuidCount, sessionFate, controllerCol, issued, planCol>>

Next ==
    \/ \E r \in Reqs, route \in ProtectedGroups \cup {"session.DELETE"}, c \in Cookies :
           Arrive(r, route, c, <<>>)
    \/ \E r \in Reqs, code \in AccessCodes : Arrive(r, "session.POST", NoCookie, code)
    \/ \E r \in Reqs, fault \in BOOLEAN : GetUser(r, fault)
    \/ \E r \in Reqs : Handler(r)
    \/ \E r \in Reqs, gfault \in BOOLEAN, mfault \in BOOLEAN : CreateSession(r, gfault, mfault)
    \/ \E r \in Reqs, fault \in BOOLEAN : CreateSessionSet(r, fault)
    \/ \E r \in Reqs, fault \in BOOLEAN : DeleteSession(r, fault)
    \/ \E k \in DOMAIN sessionDb : Expire(k)
    \/ \E r \in Reqs : Respond(r)

Spec == Init /\ [][Next]_vars

----------------------------------------------------------------------------
(* The credential-lookup revision of the session package: a login posts a  *)
(* name and a password, the repository looks the user up and sets the      *)
(* session key.  The gate reads the "session" header, which is "" when the *)
(* header is absent; DeleteSession reads the "sessionId" cookie.           *)

resNoUser == "credentials not match or user does not exist"

\* the user documents of the collection the lookup reads: u1 has registered
RegisteredUsers == [u \in {"u1"} |-> [id |-> "u1", name |-> "n1", password |-> "p1"]]

\* the bodies a client may post to create a session; user_id is optional
LoginBodies ==
    [UserId : {"", "u1", "u2"}, Name : {"", "n1"}, Password : {"p1", "p2"}]

\* mongo FindOne(filter {name, password})
MongoFindOne(col, name, password, fault) ==
    IF fault THEN "mongo error"
    ELSE IF \E id \in DOMAIN col : col[id].name = name /\ col[id].password = password
         THEN "nil"
    ELSE "mongo.ErrNoDocuments"

\* RedisMongo.CreateSession, credential revision: the lookup
RepoFindUser(col, userEntity, fault) ==
    LET err == MongoFindOne(col, userEntity.Name, userEntity.Password, fault) IN
    IF err = "mongo.ErrNoDocuments" THEN "errUserDoesNotExist" ELSE err

\* Handler.CreateSession, credential revision: the answer once
\* Repo.CreateSession has returned err
CredCreateSessionResponse(err, session) ==
    IF err = "errUserDoesNotExist" THEN JSON(StatusNotFound, resNoUser)
    ELSE IF err # "nil"
    THEN [JSON(StatusInternalServerError, resInternal) EXCEPT !.details = err]
    ELSE [JSON(StatusCreated, resCreate) EXCEPT !.session = session]

\* the chains of the credential revision
ChainCred(route) ==
    IF route \in ProtectedGroups THEN <<"GetUser", "Handler">>
    ELSE IF route = "session.POST" THEN <<"CredCreateSession">>
    ELSE <<"CredDeleteSession">>

InitCred ==
    /\ sessionDb = Empty
    /\ userDb = RegisteredUsers
    /\ uuidCount = 0
    /\ req = [r \in Reqs |-> IdleReq]
    /\ sessionFate = Empty
    /\ controllerCol = Empty
    /\ issued = Empty
    /\ planCol = Empty

\* a request reaches the engine
ArriveCred(r, route, cookie, body) ==
    /\ req[r].pc = "idle"
    /\ cookie.value \in Known(uuidCount)
    /\ req' = [req EXCEPT ![r] = [IdleReq EXCEPT !.pc = "chain",
                                     !.chain = ChainCred(route),
                                     !.cookie = cookie, !.body = body]]
    /\ UNCHANGED <<sessionDb, userDb, uuidCount, sessionFate, controllerCol, issued, planCol>>

\* Handler.CreateSession, credential revision, up to and including the lookup
\* of RedisMongo.CreateSession
CredCreateSession(r, fault) ==
    /\ NextHandler(r) = "CredCreateSession"
    /\ LET userEntity == req[r].body
           bindErr == userEntity.Name = "" \/ userEntity.Password = ""
           session == NewUuid(uuidCount)
           err == RepoFindUser(userDb, userEntity, fault)
       IN IF bindErr
          THEN /\ req' = [req EXCEPT ![r].resp = JSON(StatusBadRequest, resInvalid),
                                     ![r].chain = Tail(@)]
               /\ UNCHANGED uuidCount
          ELSE /\ uuidCount < MaxUuid
               /\ uuidCount' = uuidCount + 1
               /\ IF err # "nil"
                  THEN req' = [req EXCEPT
                            ![r].resp = CredCreateSessionResponse(err, session),
                            ![r].chain = Tail(@),
                            ![r].userEntity = userEntity, ![r].sessionId = session,
                            ![r].fault = fault, ![r].storeErr = err]
                  ELSE req' = [req EXCEPT ![r].pc = "CredCreateSession.Set",
                                          ![r].userEntity = userEntity,
                                          ![r].sessionId = session]
    /\ UNCHANGED <<sessionDb, userDb, sessionFate, controllerCol, issued, planCol>>

\* the rest of RedisMongo.CreateSession, credential revision (SessionDb.Set
\* of the UserId of the bound request body), and the handler's answer
CredCreateSessionSet(r, fault) ==
    /\ req[r].pc = "CredCreateSession.Set"
    /\ IF fault
       THEN /\ req' = [req EXCEPT ![r].pc = "chain", ![r].chain = Tail(@),
                         ![r].fault = TRUE, ![r].storeErr = "redis error",
                         ![r].resp = CredCreateSessionResponse("redis error",
                                                               req[r].sessionId)]
            /\ UNCHANGED <<sessionDb, sessionFate>>
       ELSE /\ sessionDb' = RedisSet(sessionDb, req[r].sessionId,
                                     SessionValue(req[r].userEntity))
            /\ sessionFate' = RedisSet(sessionFate, req[r].sessionId, "live")
            /\ req' = [req EXCEPT ![r].pc = "chain", ![r].chain = Tail(@),
                         ![r].resp = CredCreateSessionResponse("nil", req[r].sessionId)]
    /\ UNCHANGED <<userDb, uuidCount, controllerCol, issued, planCol>>

\* Handler.DeleteSession, credential revision: no cookie is written
CredDeleteSession(r, fault) ==
    /\ NextHandler(r) = "CredDeleteSession"
    /\ LET sessionId == req[r].cookie.value
           cookieErr == ~req[r].cookie.present
           res == RepoDeleteSession(sessionDb, sessionId, fault)
       IN IF cookieErr \/ TrimSpace(sessionId) = <<>>
          THEN /\ req' = [req EXCEPT ![r].resp = JSON(StatusBadRequest, resInvalid),
                                     ![r].chain = Tail(@)]
               /\ UNCHANGED <<sessionDb, sessionFate>>
          ELSE IF res.err # "nil"
          THEN /\ req' = [req EXCEPT ![r].resp = JSON(StatusInternalServerError, resInternal),
                                     ![r].chain = Tail(@), ![r].lookups = @ + 1,
                                     ![r].fault = fault, ![r].storeErr = res.err]
               /\ UNCHANGED <<sessionDb, sessionFate>>
          ELSE /\ sessionDb' = res.db
               /\ sessionFate' = IF sessionId \in DOMAIN sessionDb
                                  THEN RedisSet(sessionFate, sessionId, "deleted")
                                  ELSE sessionFate
               /\ req' = [req EXCEPT ![r].resp = JSON(StatusOK, resDelete),
                                     ![r].chain = Tail(@), ![r].lookups = @ + 1,
                                     ![r].fate = Fate(sessionId)]
    /\ UNCHANGED <<userDb, uuidCount, controllerCol, issued, planCol>>

NextCred ==
    \/ \E r \in Reqs, route \in ProtectedGroups \cup {"session.DELETE"}, c \in Cookies :
           ArriveCred(r, route, c, EmptyUser)
    \/ \E r \in Reqs, body \in LoginBodies : ArriveCred(r, "session.POST", NoCookie, body)
    \/ \E r \in Reqs, fault \in BOOLEAN : GetUser(r, fault)
    \/ \E r \in Reqs : Handler(r)
    \/ \E r \in Reqs, fault \in BOOLEAN : CredCreateSession(r, fault)
    \/ \E r \in Reqs, fault \in BOOLEAN : CredCreateSessionSet(r, fault)
    \/ \E r \in Reqs, fault \in BOOLEAN : CredDeleteSession(r, fault)
    \/ \E k \in DOMAIN sessionDb : Expire(k)
    \/ \E r \in Reqs : Respond(r)

SpecCred == InitCred /\ [][NextCred]_vars

----------------------------------------------------------------------------
(* The credential revision whose DeleteSession reads the session id from   *)
(* the "session" header, as its gate does; the request's cookie field      *)
(* holds that header (an absent header reads as the empty string).         *)

ChainHdr(route) ==
    IF route \in ProtectedGroups THEN <<"GetUser", "Handler">>
    ELSE IF route = "session.POST" THEN <<"CredCreateSession">>
    ELSE <<"HdrDeleteSession">>

\* a request reaches the engine
ArriveHdr(r, route, cookie, body) ==
    /\ req[r].pc = "idle"
    /\ cookie.value \in Known(uuidCount)
    /\ req' = [req EXCEPT ![r] = [IdleReq EXCEPT !.pc = "chain",
                                     !.chain = ChainHdr(route),
                                     !.cookie = cookie, !.body = body]]
    /\ UNCHANGED <<sessionDb, userDb, uuidCount, sessionFate, controllerCol, issued, planCol>>

\* Handler.DeleteSession, header revision
HdrDeleteSession(r, fault) ==
    /\ NextHandler(r) = "HdrDeleteSession"
    /\ LET sessionId == IF req[r].cookie.present THEN req[r].cookie.value ELSE <<>>
           res == RepoDeleteSession(sessionDb, sessionId, fault)
       IN IF TrimSpace(sessionId) = <<>>
          THEN /\ req' = [req EXCEPT ![r] =
                            AbortWithStatusJSON([req[r] EXCEPT !.chain = Tail(@)],
                                                StatusUnauthorized, resNotAuth)]
               /\ UNCHANGED <<sessionDb, sessionFate>>
          ELSE IF res.err # "nil"
          THEN /\ req' = [req EXCEPT ![r].resp = JSON(StatusInternalServerError, resInternal),
                                     ![r].chain = Tail(@), ![r].lookups = @ + 1,
                                     ![r].fault = fault, ![r].storeErr = res.err]
               /\ UNCHANGED <<sessionDb, sessionFate>>
          ELSE /\ sessionDb' = res.db
               /\ sessionFate' = IF sessionId \in DOMAIN sessionDb
                                  THEN RedisSet(sessionFate, sessionId, "deleted")
                                  ELSE sessionFate
               /\ req' = [req EXCEPT ![r].resp = JSON(StatusOK, resDelete),
                                     ![r].chain = Tail(@), ![r].lookups = @ + 1,
                                     ![r].fate = Fate(sessionId)]
    /\ UNCHANGED <<userDb, uuidCount, controllerCol, issued, planCol>>

NextHdr ==
    \/ \E r \in Reqs, route \in ProtectedGroups \cup {"session.DELETE"}, c \in Cookies :
           ArriveHdr(r, route, c, EmptyUser)
    \/ \E r \in Reqs, body \in LoginBodies : ArriveHdr(r, "session.POST", NoCookie, body)
    \/ \E r \in Reqs, fault \in BOOLEAN : GetUser(r, fault)
    \/ \E r \in Reqs : Handler(r)
    \/ \E r \in Reqs, fault \in BOOLEAN : CredCreateSession(r, fault)
    \/ \E r \in Reqs, fault \in BOOLEAN : CredCreateSessionSet(r, fault)
    \/ \E r \in Reqs, fault \in BOOLEAN : HdrDeleteSession(r, fault)
    \/ \E k \in DOMAIN sessionDb : Expire(k)
    \/ \E r \in Reqs : Respond(r)

SpecHdr == InitCred /\ [][NextHdr]_vars

----------------------------------------------------------------------------
(* Device tokens: Handler.GenerateToken and Handler.VerifyToken of the     *)
(* controller package behind the gate, with MongoRepo.GenerateToken.       *)
(* MongoRepo.VerifyToken has no body in the repository beyond a            *)
(* placeholder; RepoVerifyToken follows its interface comment and the      *)
(* specification of the device credential store.                          *)

\* GenerateToken stores a digest at most MaxTok times in a behaviour
MaxTok == 2

ctrlResGenerate == "controller's token generated"
ctrlResVerifyOk == "token is correct"
ctrlResInternal == "not your fault, don't worry"
ctrlResInvalid == "invalid values"
ctrlResNotFound == "not found"
ctrlResVerifyIncorrect == "token incorrect"
ctrlResRemove == "controller removed"

\* Handler.Key as main sets it
Key == "somekey"

\* hex(HMAC-SHA256(key, plaintext)): one digest per key and plaintext, and
\* never the plaintext itself
HashedToken(key, tokenId) == <<"hmac-sha256", key>> \o tokenId

\* Handler.VerifyToken with a fault: the token of the body is compared unhashed
VerifyHashedTokenPlain(key, token) == token

\* the digest Handler.VerifyToken computes of the token of the body
VerifyHashedToken(key, token) == <<"hmac-sha256", key>> \o token

\* the controller ids a client may put in the path: c1 exists, c2 is a uuid
\* of no controller, "x" is no uuid
ControllerParams == {"c1", "c2", "x"}

\* the n-th value of uuid.New().String() as a controller id
ControllerIdStr(n) == <<"c1", "c2", "c3", "c4", "c5", "c6", "c7", "c8", "c9">>[n]

\* uuid.Parse(controllerId) succeeds
UuidParseOk(controllerId) == controllerId \in {ControllerIdStr(n) : n \in 1..9}

\* binding "required,uuid4" of VerifyToken.Token
BindTokenOk(token) ==
    /\ token # <<>>
    /\ Len(token) = 1
    /\ \E i \in 1..Len(Digits) : token[1] = Digits[i]

\* the sessions that exist when the behaviour starts: one of each user
DevSessions == [k \in {UuidStr(1), UuidStr(2)} |->
                    IF k = UuidStr(1) THEN "u1" ELSE "u2"]

\* the controllers that exist when the behaviour starts: c1 of u1, as
\* MongoRepo.AddController inserts it (no token field)
DevControllers == [c \in {"c1"} |-> [userId |-> "u1", token |-> <<>>]]

\* the plans that exist when the behaviour starts: p1 of u1
DevPlans == [p \in {"p1"} |-> [userId |-> "u1", name |-> "n1"]]

\* the tokens a client may present: malformed ones, a uuid that was never
\* issued, and the plaintexts handed out so far
TokenValues(count) ==
    {<<>>, <<"z">>, <<"9">>}
        \cup {UuidStr(n) : n \in (Cardinality(DOMAIN DevSessions) + 1)..count}

\* the plaintext stored last for a controller, <<>> when none was
Latest(controllerId) ==
    IF controllerId \in DOMAIN issued /\ issued[controllerId] # <<>>
    THEN issued[controllerId][Len(issued[controllerId])]
    ELSE <<>>

\* MongoRepoGenerateToken with a fault: a token that is already set is kept
MongoRepoGenerateTokenKeepsFirst(col, userId, controllerId, token, fault) ==
    IF fault THEN [err |-> "mongo error", col |-> col]
    ELSE IF controllerId \notin DOMAIN col \/ col[controllerId].userId # userId
    THEN [err |-> "controllerNotFound", col |-> col]
    ELSE IF col[controllerId].token # <<>> THEN [err |-> "nil", col |-> col]
    ELSE [err |-> "nil", col |-> [col EXCEPT ![controllerId].token = token]]

\* MongoRepoGenerateToken with a fault: the filter leaves out the owner
MongoRepoGenerateTokenAnyOwner(col, userId, controllerId, token, fault) ==
    IF fault THEN [err |-> "mongo error", col |-> col]
    ELSE IF controllerId \notin DOMAIN col
    THEN [err |-> "controllerNotFound", col |-> col]
    ELSE [err |-> "nil", col |-> [col EXCEPT ![controllerId].token = token]]

\* MongoRepoGenerateToken with a fault: the new digest is merged into the
\* stored one
MongoRepoGenerateTokenMerges(col, userId, controllerId, token, fault) ==
    IF fault THEN [err |-> "mongo error", col |-> col]
    ELSE IF controllerId \notin DOMAIN col \/ col[controllerId].userId # userId
    THEN [err |-> "controllerNotFound", col |-> col]
    ELSE [err |-> "nil", col |-> [col EXCEPT ![controllerId].token = @ \o token]]

\* MongoRepo.GenerateToken: FindOneAndUpdate({_id, userId}, $set token)
MongoRepoGenerateToken(col, userId, controllerId, token, fault) ==
    IF fault THEN [err |-> "mongo error", col |-> col]
    ELSE IF controllerId \notin DOMAIN col \/ col[controllerId].userId # userId
    THEN [err |-> "controllerNotFound", col |-> col]
    ELSE [err |-> "nil", col |-> [col EXCEPT ![controllerId].token = token]]

\* Repo.VerifyToken: the digest is checked against the one in store, for
\* the controller of that id and owner
RepoVerifyToken(col, userId, controllerId, hashedToken, fault) ==
    IF fault THEN "mongo error"
    ELSE IF controllerId \notin DOMAIN col \/ col[controllerId].userId # userId
    THEN "controllerNotFound"
    ELSE IF col[controllerId].token # hashedToken THEN "tokenIncorrect"
    ELSE "nil"

\* MongoRepo.RemoveController: FindOneAndDelete({_id, userId})
MongoRepoRemoveController(col, userId, controllerId, fault) ==
    IF fault THEN [err |-> "mongo error", col |-> col]
    ELSE IF controllerId \notin DOMAIN col \/ col[controllerId].userId # userId
    THEN [err |-> "controllerNotFound", col |-> col]
    ELSE [err |-> "nil", col |-> [c \in DOMAIN col \ {controllerId} |-> col[c]]]

\* Handler.RemoveController: the answer once Repo.RemoveController has returned err
RemoveControllerResponse(err) ==
    IF err = "controllerNotFound" THEN JSON(StatusNotFound, ctrlResNotFound)
    ELSE IF err # "nil" THEN JSON(StatusInternalServerError, ctrlResInternal)
    ELSE JSON(StatusOK, ctrlResRemove)

\* Handler.GenerateToken: the answer once Repo.GenerateToken has returned err
GenerateTokenResponse(err, tokenId) ==
    IF err = "controllerNotFound" THEN JSON(StatusNotFound, ctrlResNotFound)
    ELSE IF err # "nil" THEN JSON(StatusInternalServerError, ctrlResInternal)
    ELSE [JSON(StatusOK, ctrlResGenerate) EXCEPT !.token_id = tokenId]

\* VerifyTokenResponse with a fault: an unknown controller is answered as
\* a wrong token
VerifyTokenResponseMergesErrors(err) ==
    IF err \in {"controllerNotFound", "tokenIncorrect"}
    THEN JSON(StatusBadRequest, ctrlResVerifyIncorrect)
    ELSE IF err # "nil" THEN JSON(StatusInternalServerError, ctrlResInternal)
    ELSE JSON(StatusOK, ctrlResVerifyOk)

\* VerifyTokenResponse with a fault: a wrong token is answered 404, as the
\* first revision of the handler does
VerifyTokenResponseIncorrect404(err) ==
    IF err = "controllerNotFound" THEN JSON(StatusNotFound, ctrlResNotFound)
    ELSE IF err = "tokenIncorrect" THEN JSON(StatusNotFound, ctrlResVerifyIncorrect)
    ELSE IF err # "nil" THEN JSON(StatusInternalServerError, ctrlResInternal)
    ELSE JSON(StatusOK, ctrlResVerifyOk)

\* Handler.VerifyToken: the answer once Repo.VerifyToken has returned err
VerifyTokenResponse(err) ==
    IF err = "controllerNotFound" THEN JSON(StatusNotFound, ctrlResNotFound)
    ELSE IF err = "tokenIncorrect" THEN JSON(StatusBadRequest, ctrlResVerifyIncorrect)
    ELSE IF err # "nil" THEN JSON(StatusInternalServerError, ctrlResInternal)
    ELSE JSON(StatusOK, ctrlResVerifyOk)

\* the token routes of the controller group
ChainDev(route) ==
    IF route = "token.POST" THEN <<"GetUser", "GenerateToken">>
    ELSE IF route = "controller.DELETE" THEN <<"GetUser", "RemoveController">>
    ELSE <<"GetUser", "VerifyToken">>

InitDev ==
    /\ sessionDb = DevSessions
    /\ userDb = [u \in UserIds |-> [id |-> u, name |-> u]]
    /\ uuidCount = Cardinality(DOMAIN DevSessions)
    /\ req = [r \in Reqs |-> IdleReq]
    /\ sessionFate = [k \in DOMAIN DevSessions |-> "live"]
    /\ controllerCol = DevControllers
    /\ issued = [c \in DOMAIN DevControllers |-> <<>>]
    /\ planCol = DevPlans

\* a request reaches the engine
ArriveDev(r, route, cookie, param, token) ==
    /\ req[r].pc = "idle"
    /\ cookie.present => cookie.value \in DOMAIN DevSessions
    /\ token \in TokenValues(uuidCount)
    /\ req' = [req EXCEPT ![r] = [IdleReq EXCEPT !.pc = "chain",
                                     !.chain = ChainDev(route), !.cookie = cookie,
                                     !.param = param, !.token = token]]
    /\ UNCHANGED <<sessionDb, userDb, uuidCount, sessionFate, controllerCol, issued, planCol>>

\* Handler.GenerateToken up to the call of Repo.GenerateToken: the plaintext
\* is drawn and hashed
GenerateToken(r) ==
    /\ NextHandler(r) = "GenerateToken"
    /\ LET u == getUserId(req[r].keys)
           controllerId == req[r].param
           tokenId == NewUuid(uuidCount)
       IN IF u.err # "nil"
          THEN /\ req' = [req EXCEPT
                            ![r].resp = JSON(StatusInternalServerError, ctrlResInternal),
                            ![r].chain = Tail(@), ![r].ran = TRUE,
                            ![r].op = "GenerateToken"]
               /\ UNCHANGED uuidCount
          ELSE IF ~UuidParseOk(controllerId)
          THEN /\ req' = [req EXCEPT
                            ![r].resp = JSON(StatusBadRequest, ctrlResInvalid),
                            ![r].chain = Tail(@), ![r].ran = TRUE,
                            ![r].op = "GenerateToken"]
               /\ UNCHANGED uuidCount
          ELSE /\ uuidCount < Cardinality(DOMAIN DevSessions) + MaxTok
               /\ uuidCount' = uuidCount + 1
               /\ req' = [req EXCEPT ![r].pc = "GenerateToken.Repo",
                                     ![r].ran = TRUE, ![r].op = "GenerateToken",
                                     ![r].seenUserId = u.userId,
                                     ![r].tokenId = tokenId,
                                     ![r].hashedToken = HashedToken(Key, tokenId)]
    /\ UNCHANGED <<sessionDb, userDb, sessionFate, controllerCol, issued, planCol>>

\* the call of Repo.GenerateToken and the handler's answer
GenerateTokenRepo(r, fault) ==
    /\ req[r].pc = "GenerateToken.Repo"
    /\ LET controllerId == req[r].param
           res == MongoRepoGenerateToken(controllerCol, req[r].seenUserId,
                                         controllerId, req[r].hashedToken, fault)
       IN /\ controllerCol' = res.col
          /\ issued' = IF res.err = "nil"
                       THEN [issued EXCEPT ![controllerId] = Append(@, req[r].tokenId)]
                       ELSE issued
          /\ req' = [req EXCEPT ![r].pc = "chain", ![r].chain = Tail(@),
                         ![r].fault = fault, ![r].storeErr = res.err,
                         ![r].latest = Latest(controllerId),
                         ![r].resp = GenerateTokenResponse(res.err, req[r].tokenId)]
    /\ UNCHANGED <<sessionDb, userDb, uuidCount, sessionFate, planCol>>

\* Handler.VerifyToken
VerifyToken(r, fault) ==
    /\ NextHandler(r) = "VerifyToken"
    /\ LET u == getUserId(req[r].keys)
           controllerId == req[r].param
           hashedToken == VerifyHashedToken(Key, req[r].token)
           err == RepoVerifyToken(controllerCol, u.userId, controllerId,
                                  hashedToken, fault)
           c == [req[r] EXCEPT !.chain = Tail(@), !.ran = TRUE, !.op = "VerifyToken"]
       IN IF u.err # "nil"
          THEN req' = [req EXCEPT ![r] =
                         [c EXCEPT !.resp = JSON(StatusInternalServerError, ctrlResInternal)]]
          ELSE IF ~UuidParseOk(controllerId) \/ ~BindTokenOk(req[r].token)
          THEN req' = [req EXCEPT ![r] =
                         [c EXCEPT !.resp = JSON(StatusBadRequest, ctrlResInvalid),
                                   !.seenUserId = u.userId]]
          ELSE req' = [req EXCEPT ![r] =
                         [c EXCEPT !.resp = VerifyTokenResponse(err),
                                   !.seenUserId = u.userId,
                                   !.hashedToken = hashedToken,
                                   !.fault = fault, !.storeErr = err,
                                   !.latest = Latest(controllerId)]]
    /\ UNCHANGED <<sessionDb, userDb, uuidCount, sessionFate, controllerCol, issued, planCol>>

\* Handler.RemoveController
RemoveController(r, fault) ==
    /\ NextHandler(r) = "RemoveController"
    /\ LET u == getUserId(req[r].keys)
           controllerId == req[r].param
           res == MongoRepoRemoveController(controllerCol, u.userId, controllerId, fault)
           c == [req[r] EXCEPT !.chain = Tail(@), !.ran = TRUE,
                               !.op = "RemoveController"]
       IN IF u.err # "nil"
          THEN /\ req' = [req EXCEPT ![r] =
                         [c EXCEPT !.resp = JSON(StatusInternalServerError, ctrlResInternal)]]
               /\ UNCHANGED <<controllerCol, issued>>
          ELSE IF ~UuidParseOk(controllerId)
          THEN /\ req' = [req EXCEPT ![r] =
                         [c EXCEPT !.resp = JSON(StatusBadRequest, ctrlResInvalid),
                                   !.seenUserId = u.userId]]
               /\ UNCHANGED <<controllerCol, issued>>
          ELSE /\ controllerCol' = res.col
               /\ issued' = [d \in DOMAIN issued \cap DOMAIN res.col |-> issued[d]]
               /\ req' = [req EXCEPT ![r] =
                         [c EXCEPT !.resp = RemoveControllerResponse(res.err),
                                   !.seenUserId = u.userId,
                                   !.fault = fault, !.storeErr = res.err]]
    /\ UNCHANGED <<sessionDb, userDb, uuidCount, sessionFate, planCol>>

NextDev ==
    \/ \E r \in Reqs, route \in {"token.POST", "controller.DELETE"}, c \in Cookies,
          p \in ControllerParams : ArriveDev(r, route, c, p, <<>>)
    \/ \E r \in Reqs, c \in Cookies, p \in ControllerParams,
          t \in TokenValues(uuidCount) : ArriveDev(r, "token.GET", c, p, t)
    \/ \E r \in Reqs, fault \in BOOLEAN : GetUser(r, fault)
    \/ \E r \in Reqs : GenerateToken(r)
    \/ \E r \in Reqs, fault \in BOOLEAN : GenerateTokenRepo(r, fault)
    \/ \E r \in Reqs, fault \in BOOLEAN : VerifyToken(r, fault)
    \/ \E r \in Reqs, fault \in BOOLEAN : RemoveController(r, fault)
    \/ \E r \in Reqs : Respond(r)

SpecDev == InitDev /\ [][NextDev]_vars

----------------------------------------------------------------------------
(* The revision of the controller package whose Entity carries the token:  *)
(* Handler.GenerateToken hands the uuid itself to Repo.GenerateToken, and  *)
(* MongoRepo.GetController and MongoRepo.ListControllers read the token    *)
(* back into the Entity the handlers serialise.                            *)

ctrlResGet == "controller retrieved"
ctrlResList == "list of controllers retrieved"

\* the Entity as the handlers serialise it: token has omitempty
EntityJSON(controllerId, doc) == [controller_id |-> controllerId, token |-> doc.token]

\* MongoRepo.GetController: FindOne({_id, userId}) and Decode
MongoRepoGetController(col, userId, controllerId, fault) ==
    IF fault THEN [err |-> "mongo error", entities |-> {}]
    ELSE IF controllerId \notin DOMAIN col \/ col[controllerId].userId # userId
    THEN [err |-> "controllerNotFound", entities |-> {}]
    ELSE [err |-> "nil", entities |-> {EntityJSON(controllerId, col[controllerId])}]

\* MongoRepo.ListControllers: Find({userId}) and Decode of each
MongoRepoListControllers(col, userId, fault) ==
    IF fault THEN [err |-> "mongo error", entities |-> {}]
    ELSE [err |-> "nil",
          entities |-> {EntityJSON(c, col[c]) : c \in {d \in DOMAIN col : col[d].userId = userId}}]

\* Handler.GetController: the answer once Repo.GetController has returned
GetControllerResponse(res) ==
    IF res.err = "controllerNotFound" THEN JSON(StatusNotFound, ctrlResNotFound)
    ELSE IF res.err # "nil" THEN JSON(StatusInternalServerError, ctrlResInternal)
    ELSE [JSON(StatusOK, ctrlResGet) EXCEPT !.entities = res.entities]

\* Handler.ListControllers: the answer once Repo.ListControllers has returned
ListControllersResponse(res) ==
    IF res.err # "nil" THEN JSON(StatusInternalServerError, ctrlResInternal)
    ELSE [JSON(StatusOK, ctrlResList) EXCEPT !.entities = res.entities]

\* the routes of the controller group in this revision
ChainPlain(route) ==
    IF route = "token.POST" THEN <<"GetUser", "PlainGenerateToken">>
    ELSE IF route = "controller.GET" THEN <<"GetUser", "GetController">>
    ELSE <<"GetUser", "ListControllers">>

\* a request reaches the engine
ArrivePlain(r, route, cookie, param) ==
    /\ req[r].pc = "idle"
    /\ cookie.present => cookie.value \in DOMAIN DevSessions
    /\ req' = [req EXCEPT ![r] = [IdleReq EXCEPT !.pc = "chain",
                                     !.chain = ChainPlain(route), !.cookie = cookie,
                                     !.param = param]]
    /\ UNCHANGED <<sessionDb, userDb, uuidCount, sessionFate, controllerCol, issued, planCol>>

\* Handler.GenerateToken of this revision up to the call of
\* Repo.GenerateToken: the uuid drawn is what the repository is given
PlainGenerateToken(r) ==
    /\ NextHandler(r) = "PlainGenerateToken"
    /\ LET u == getUserId(req[r].keys)
           controllerId == req[r].param
           tokenId == NewUuid(uuidCount)
       IN IF u.err # "nil"
          THEN /\ req' = [req EXCEPT
                            ![r].resp = JSON(StatusInternalServerError, ctrlResInternal),
                            ![r].chain = Tail(@), ![r].ran = TRUE,
                            ![r].op = "GenerateToken"]
               /\ UNCHANGED uuidCount
          ELSE IF ~UuidParseOk(controllerId)
          THEN /\ req' = [req EXCEPT
                            ![r].resp = JSON(StatusBadRequest, ctrlResInvalid),
                            ![r].chain = Tail(@), ![r].ran = TRUE,
                            ![r].op = "GenerateToken"]
               /\ UNCHANGED uuidCount
          ELSE /\ uuidCount < Cardinality(DOMAIN DevSessions) + MaxTok
               /\ uuidCount' = uuidCount + 1
               /\ req' = [req EXCEPT ![r].pc = "GenerateToken.Repo",
                                     ![r].ran = TRUE, ![r].op = "GenerateToken",
                                     ![r].seenUserId = u.userId,
                                     ![r].tokenId = tokenId,
                                     ![r].hashedToken = tokenId]
    /\ UNCHANGED <<sessionDb, userDb, sessionFate, controllerCol, issued, planCol>>

\* Handler.GetController
GetController(r, fault) ==
    /\ NextHandler(r) = "GetController"
    /\ LET u == getUserId(req[r].keys)
           controllerId == req[r].param
           res == MongoRepoGetController(controllerCol, u.userId, controllerId, fault)
           c == [req[r] EXCEPT !.chain = Tail(@), !.ran = TRUE, !.op = "GetController"]
       IN IF u.err # "nil"
          THEN req' = [req EXCEPT ![r] =
                         [c EXCEPT !.resp = JSON(StatusInternalServerError, ctrlResInternal)]]
          ELSE IF ~UuidParseOk(controllerId)
          THEN req' = [req EXCEPT ![r] =
                         [c EXCEPT !.resp = JSON(StatusBadRequest, ctrlResInvalid),
                                   !.seenUserId = u.userId]]
          ELSE req' = [req EXCEPT ![r] =
                         [c EXCEPT !.resp = GetControllerResponse(res),
                                   !.seenUserId = u.userId,
                                   !.fault = fault, !.storeErr = res.err]]
    /\ UNCHANGED <<sessionDb, userDb, uuidCount, sessionFate, controllerCol, issued, planCol>>

\* Handler.ListControllers
ListControllers(r, fault) ==
    /\ NextHandler(r) = "ListControllers"
    /\ LET u == getUserId(req[r].keys)
           res == MongoRepoListControllers(controllerCol, u.userId, fault)
           c == [req[r] EXCEPT !.chain = Tail(@), !.ran = TRUE, !.op = "ListControllers"]
       IN IF u.err # "nil"
          THEN req' = [req EXCEPT ![r] =
                         [c EXCEPT !.resp = JSON(StatusInternalServerError, ctrlResInternal)]]
          ELSE req' = [req EXCEPT ![r] =
                         [c EXCEPT !.resp = ListControllersResponse(res),
                                   !.seenUserId = u.userId,
                                   !.fault = fault, !.storeErr = res.err]]
    /\ UNCHANGED <<sessionDb, userDb, uuidCount, sessionFate, controllerCol, issued, planCol>>

NextPlain ==
    \/ \E r \in Reqs, route \in {"token.POST", "controller.GET"}, c \in Cookies,
          p \in ControllerParams : ArrivePlain(r, route, c, p)
    \/ \E r \in Reqs, c \in Cookies : ArrivePlain(r, "controllers.GET", c, "")
    \/ \E r \in Reqs, fault \in BOOLEAN : GetUser(r, fault)
    \/ \E r \in Reqs : PlainGenerateToken(r)
    \/ \E r \in Reqs, fault \in BOOLEAN : GenerateTokenRepo(r, fault)
    \/ \E r \in Reqs, fault \in BOOLEAN : GetController(r, fault)
    \/ \E r \in Reqs, fault \in BOOLEAN : ListControllers(r, fault)
    \/ \E r \in Reqs : Respond(r)

SpecPlain == InitDev /\ [][NextPlain]_vars

----------------------------------------------------------------------------
(* The first revision of the controller package: Handler.VerifyToken reads *)
(* the token from the path parameter controllerToken, getUserId checks     *)
(* that the userId is a uuid, and a wrong token is answered 404.           *)

\* uuid.Parse of the userId in the context
UserIdParseOk(userId) == userId \in UserIds

\* getUserId of the first revision
PathGetUserId(keys) ==
    IF "userId" \notin DOMAIN keys THEN [err |-> "keyNotFound", userId |-> ""]
    ELSE IF ~UserIdParseOk(keys["userId"]) THEN [err |-> "badFormat", userId |-> ""]
    ELSE [err |-> "nil", userId |-> keys["userId"]]

\* uuid.Parse of the path parameter controllerToken
PathTokenParseOk(controllerToken) == BindTokenOk(controllerToken)

\* Handler.VerifyToken of the first revision: the answer once Repo.VerifyToken
\* has returned err
PathVerifyTokenResponse(err) ==
    IF err = "controllerNotFound" THEN JSON(StatusNotFound, ctrlResNotFound)
    ELSE IF err = "tokenIncorrect" THEN JSON(StatusNotFound, ctrlResVerifyIncorrect)
    ELSE IF err # "nil" THEN JSON(StatusInternalServerError, ctrlResInternal)
    ELSE JSON(StatusOK, ctrlResVerifyOk)

ChainPath(route) ==
    IF route = "token.POST" THEN <<"GetUser", "GenerateToken">>
    ELSE <<"GetUser", "PathVerifyToken">>

\* a request reaches the engine; token is the path parameter controllerToken
ArrivePath(r, route, cookie, param, token) ==
    /\ req[r].pc = "idle"
    /\ cookie.present => cookie.value \in DOMAIN DevSessions
    /\ token \in TokenValues(uuidCount)
    /\ req' = [req EXCEPT ![r] = [IdleReq EXCEPT !.pc = "chain",
                                     !.chain = ChainPath(route), !.cookie = cookie,
                                     !.param = param, !.token = token]]
    /\ UNCHANGED <<sessionDb, userDb, uuidCount, sessionFate, controllerCol, issued, planCol>>

\* Handler.VerifyToken of the first revision
PathVerifyToken(r, fault) ==
    /\ NextHandler(r) = "PathVerifyToken"
    /\ LET u == PathGetUserId(req[r].keys)
           controllerId == req[r].param
           controllerToken == req[r].token
           hashedToken == VerifyHashedToken(Key, controllerToken)
           err == RepoVerifyToken(controllerCol, u.userId, controllerId,
                                  hashedToken, fault)
           c == [req[r] EXCEPT !.chain = Tail(@), !.ran = TRUE, !.op = "VerifyToken"]
       IN IF u.err = "badFormat"
          THEN req' = [req EXCEPT ![r] =
                         [c EXCEPT !.resp = JSON(StatusBadRequest, ctrlResInvalid)]]
          ELSE IF u.err # "nil"
          THEN req' = [req EXCEPT ![r] =
                         [c EXCEPT !.resp = JSON(StatusInternalServerError, ctrlResInternal)]]
          ELSE IF ~UuidParseOk(controllerId) \/ ~PathTokenParseOk(controllerToken)
          THEN req' = [req EXCEPT ![r] =
                         [c EXCEPT !.resp = JSON(StatusBadRequest, ctrlResInvalid),
                                   !.seenUserId = u.userId]]
          ELSE req' = [req EXCEPT ![r] =
                         [c EXCEPT !.resp = PathVerifyTokenResponse(err),
                                   !.seenUserId = u.userId,
                                   !.hashedToken = hashedToken,
                                   !.fault = fault, !.storeErr = err,
                                   !.latest = Latest(controllerId)]]
    /\ UNCHANGED <<sessionDb, userDb, uuidCount, sessionFate, controllerCol, issued, planCol>>

NextPath ==
    \/ \E r \in Reqs, c \in Cookies, p \in ControllerParams :
           ArrivePath(r, "token.POST", c, p, <<>>)
    \/ \E r \in Reqs, c \in Cookies, p \in ControllerParams,
          t \in TokenValues(uuidCount) : ArrivePath(r, "token.GET", c, p, t)
    \/ \E r \in Reqs, fault \in BOOLEAN : GetUser(r, fault)
    \/ \E r \in Reqs : GenerateToken(r)
    \/ \E r \in Reqs, fault \in BOOLEAN : GenerateTokenRepo(r, fault)
    \/ \E r \in Reqs, fault \in BOOLEAN : PathVerifyToken(r, fault)
    \/ \E r \in Reqs : Respond(r)

SpecPath == InitDev /\ [][NextPath]_vars

----------------------------------------------------------------------------
(* Handler.VerifyToken over repoStruct, the repository of the package's    *)
(* tests: the one implementation of Repo.VerifyToken that compares.        *)

\* the length of a hex digest in the model (64 in the code)
DigestLen == 3

HexDigits == {"f", "9", "1"}

\* the hex strings hex.EncodeToString(hasher.Sum(nil)) can be
Digests == [1..DigestLen -> HexDigits]

\* the leading characters of the digest the test repository holds
goodHashedToken == <<"f", "9", "1">>

\* the controller the test repository knows
TestControllerId == "c1"

\* the userId the engine's middleware sets
TestUserId == "u1"

\* the first index where two strings of one length differ, Len + 1 if none
FirstDiff(a, b) ==
    IF a = b THEN Len(a) + 1
    ELSE CHOOSE i \in 1..Len(a) :
            /\ a[i] # b[i]
            /\ \A j \in 1..(i - 1) : a[j] = b[j]

\* the numbers of bytes Go's != on two strings of one length may read: all of
\* them when they are equal, otherwise any number from the first differing
\* byte on (the runtime compares in chunks and stops after a difference)
StringNotEqualReads(a, b) ==
    IF a = b THEN {Len(a)} ELSE FirstDiff(a, b)..Len(a)

\* repoStruct.VerifyToken
TestRepoVerifyToken(controllerId, hashedToken) ==
    IF controllerId # TestControllerId THEN "controllerNotFound"
    ELSE IF hashedToken # goodHashedToken THEN "tokenIncorrect"
    ELSE "nil"

\* a request reaches the test engine: the middleware sets the userId
ArriveTest(r, param, token) ==
    /\ req[r].pc = "idle"
    /\ token \in TokenValues(uuidCount)
    /\ req' = [req EXCEPT ![r] = [IdleReq EXCEPT !.pc = "chain",
                                     !.chain = <<"TestVerifyToken">>,
                                     !.keys = [k \in {"userId"} |-> TestUserId],
                                     !.param = param, !.token = token]]
    /\ UNCHANGED <<sessionDb, userDb, uuidCount, sessionFate, controllerCol, issued, planCol>>

\* Handler.VerifyToken over repoStruct; hashedToken is the hex digest of the
\* token presented, n the number of bytes the comparison reads
TestVerifyToken(r, hashedToken, n) ==
    /\ NextHandler(r) = "TestVerifyToken"
    /\ LET u == getUserId(req[r].keys)
           controllerId == req[r].param
           err == TestRepoVerifyToken(controllerId, hashedToken)
           compared == controllerId = TestControllerId
           c == [req[r] EXCEPT !.chain = Tail(@), !.ran = TRUE, !.op = "VerifyToken"]
       IN IF u.err # "nil"
          THEN /\ n = 0 /\ hashedToken = goodHashedToken
               /\ req' = [req EXCEPT ![r] =
                         [c EXCEPT !.resp = JSON(StatusInternalServerError, ctrlResInternal)]]
          ELSE IF ~UuidParseOk(controllerId) \/ ~BindTokenOk(req[r].token)
          THEN /\ n = 0 /\ hashedToken = goodHashedToken
               /\ req' = [req EXCEPT ![r] =
                         [c EXCEPT !.resp = JSON(StatusBadRequest, ctrlResInvalid),
                                   !.seenUserId = u.userId]]
          ELSE /\ IF compared
                  THEN n \in StringNotEqualReads(hashedToken, goodHashedToken)
                  ELSE n = 0
               /\ req' = [req EXCEPT ![r] =
                         [c EXCEPT !.resp = VerifyTokenResponse(err),
                                   !.seenUserId = u.userId,
                                   !.hashedToken = hashedToken,
                                   !.storeErr = err,
                                   !.examined = n]]
    /\ UNCHANGED <<sessionDb, userDb, uuidCount, sessionFate, controllerCol, issued, planCol>>

NextTest ==
    \/ \E r \in Reqs, p \in ControllerParams, t \in TokenValues(uuidCount) :
           ArriveTest(r, p, t)
    \/ \E r \in Reqs, h \in Digests, n \in 0..DigestLen : TestVerifyToken(r, h, n)
    \/ \E r \in Reqs : Respond(r)

SpecTest == InitDev /\ [][NextTest]_vars

----------------------------------------------------------------------------
(* The controller handlers AddController, UpdateController and             *)
(* RemoveController behind the gate, over MongoRepo and MongoPlanRepo.      *)

\* how many controllers AddController may be asked for
MaxAdd == 1

\* how many requests to the controller handlers may be in flight at once
MaxInFlight == 1

InFlight == {q \in Reqs : req[q].pc # "idle"}

ctrlResAdded == "controller added"
ctrlResUpdate == "controller updated"
ctrlResDup == "duplicate name"
ctrlResPlanNotFound == "plan not found"

\* the document MongoRepo.AddController inserts; a key the document lacks
\* holds the empty value, and upper tells whether the keys Name, Desc and Plan
\* are in it
ControllerDoc(entity) ==
    [userId |-> entity.UserId, name |-> entity.Name, desc |-> entity.Desc,
     plan |-> entity.Plan, token |-> <<>>,
     upper |-> FALSE, Name |-> <<>>, Desc |-> "", Plan |-> ""]

\* the controllers that exist when the behaviour starts: c1 of u1, c2 of u2
CtlControllers ==
    [c \in {"c1", "c2"} |->
        IF c = "c1"
        THEN ControllerDoc([NoEntity EXCEPT !.UserId = "u1", !.Name = <<"a">>, !.Desc = "d1"])
        ELSE ControllerDoc([NoEntity EXCEPT !.UserId = "u2", !.Name = <<"b">>, !.Desc = "d2"])]

\* the controller ids a client may put in the path: its own, the other
\* user's, and one that is no uuid
CtlParams == {"c1", "c2", "x"}

\* the JSON bodies a client may send
CtlBodies ==
    {[NoCtlBody EXCEPT !.name = <<"a">>, !.desc = "d3"],
     [NoCtlBody EXCEPT !.name = <<" ", "b">>, !.plan = "p1"],
     [NoCtlBody EXCEPT !.name = <<" ">>],
     [NoCtlBody EXCEPT !.name = <<"b">>, !.controller_id = "c1", !.UserId = "u2"],
     [NoCtlBody EXCEPT !.name = <<"a">>, !.plan = "p2"]}

\* NameValidation, the binding "name"
NameValidation(value) == TrimSpace(value) # <<>>

\* the binding "omitempty,uuid4" of Entity.Plan
PlanBindOk(plan) == plan \in {"", "p1", "p2"}

\* ctx.ShouldBindJSON(entity): json.Unmarshal writes the fields whose keys are
\* in the body (UserId has the tag "-"), then the bindings are validated
ShouldBindJSON(entity, body) ==
    LET bound == [entity EXCEPT
                    !.ControllerId = IF body.controller_id # ""
                                     THEN body.controller_id ELSE @,
                    !.Name = body.name, !.Desc = body.desc, !.Plan = body.plan]
    IN [err |-> IF NameValidation(bound.Name) /\ PlanBindOk(bound.Plan)
                THEN "nil" ELSE "validation",
        entity |-> bound]

\* MongoPlanRepo.PlanExist: FindOne({_id, userId})
PlanExist(plans, userId, planId, fault) ==
    IF fault THEN "mongo error"
    ELSE IF planId \notin DOMAIN plans \/ plans[planId].userId # userId
    THEN "planNotFound"
    ELSE "nil"

\* what InsertOne may meet: nothing, an error that is no WriteException, a
\* WriteException without WriteErrors, a WriteException whose first
\* WriteError has another code than 11000
InsertFaults == {"none", "network", "writeConcern", "writeError"}

\* MongoRepo.AddController: InsertOne; a WriteException whose first code is
\* not 11000 leaves the if block and nil is returned
MongoRepoAddController(col, entity, fault) ==
    IF fault \in {"network", "writeConcern"} THEN [err |-> "mongo error", col |-> col]
    ELSE IF entity.ControllerId \in DOMAIN col
    THEN [err |-> "duplicateName", col |-> col]
    ELSE IF fault = "writeError" THEN [err |-> "nil", col |-> col]
    ELSE [err |-> "nil",
          col |-> [c \in DOMAIN col \cup {entity.ControllerId} |->
                     IF c = entity.ControllerId THEN ControllerDoc(entity) ELSE col[c]]]

\* MongoRepo.UpdateController: FindOneAndUpdate({_id, userId},
\* $set {Name, Desc, Plan})
MongoRepoUpdateController(col, entity, fault) ==
    IF fault THEN [err |-> "mongo error", col |-> col]
    ELSE IF \/ entity.ControllerId \notin DOMAIN col
            \/ col[entity.ControllerId].userId # entity.UserId
    THEN [err |-> "controllerNotFound", col |-> col]
    ELSE [err |-> "nil",
          col |-> [col EXCEPT ![entity.ControllerId] =
                     [@ EXCEPT !.upper = TRUE, !.Name = entity.Name,
                               !.Desc = entity.Desc, !.Plan = entity.Plan]]]

\* the Entity as the handlers serialise it
CtlEntityJSON(entity) ==
    [controller_id |-> entity.ControllerId, name |-> entity.Name,
     desc |-> entity.Desc, plan |-> entity.Plan]

\* the handlers' answer to an error of PlanRepo.PlanExist
PlanExistResponse(err) ==
    IF err = "planNotFound" THEN JSON(StatusNotFound, ctrlResPlanNotFound)
    ELSE JSON(StatusInternalServerError, ctrlResInternal)

\* Handler.AddController: the answer once Repo.AddController has returned err
AddControllerResponse(err, entity) ==
    IF err = "duplicateName" THEN JSON(StatusBadRequest, ctrlResDup)
    ELSE IF err # "nil" THEN JSON(StatusInternalServerError, ctrlResInternal)
    ELSE [JSON(StatusCreated, ctrlResAdded) EXCEPT !.controller_id = entity.ControllerId]

\* Handler.UpdateController: the answer once Repo.UpdateController has
\* returned err
UpdateControllerResponse(err, entity) ==
    IF err = "controllerNotFound" THEN JSON(StatusNotFound, ctrlResNotFound)
    ELSE IF err # "nil" THEN JSON(StatusInternalServerError, ctrlResInternal)
    ELSE [JSON(StatusOK, ctrlResUpdate) EXCEPT !.entities = {CtlEntityJSON(entity)}]

ChainCtl(route) ==
    IF route = "controller.POST" THEN <<"GetUser", "AddController">>
    ELSE IF route = "controller.PUT" THEN <<"GetUser", "UpdateController">>
    ELSE <<"GetUser", "RemoveController">>

InitCtl ==
    /\ sessionDb = DevSessions
    /\ userDb = [u \in UserIds |-> [id |-> u, name |-> u]]
    /\ uuidCount = Cardinality(DOMAIN DevSessions)
    /\ req = [r \in Reqs |-> IdleReq]
    /\ sessionFate = [k \in DOMAIN DevSessions |-> "live"]
    /\ controllerCol = CtlControllers
    /\ issued = [c \in DOMAIN CtlControllers |-> <<>>]
    /\ planCol = DevPlans

\* a request with a session cookie reaches the engine
ArriveCtl(r, route, cookie, param, body) ==
    /\ req[r].pc = "idle"
    /\ Cardinality(InFlight) < MaxInFlight
    /\ cookie.present /\ cookie.value \in DOMAIN DevSessions
    /\ req' = [req EXCEPT ![r] = [IdleReq EXCEPT !.pc = "chain",
                                     !.chain = ChainCtl(route), !.cookie = cookie,
                                     !.param = param, !.ctlBody = body]]
    /\ UNCHANGED <<sessionDb, userDb, uuidCount, sessionFate, controllerCol, issued, planCol>>

\* Handler.AddController
AddController(r, pfault, fault) ==
    /\ NextHandler(r) = "AddController"
    /\ LET u == getUserId(req[r].keys)
           bind == ShouldBindJSON([NoEntity EXCEPT
                                     !.ControllerId = ControllerIdStr(uuidCount + 1),
                                     !.UserId = u.userId], req[r].ctlBody)
           entity == [bind.entity EXCEPT !.Name = TrimSpace(@)]
           perr == IF entity.Plan # ""
                   THEN PlanExist(planCol, entity.UserId, entity.Plan, pfault)
                   ELSE "nil"
           res == MongoRepoAddController(controllerCol, entity, fault)
           c == [req[r] EXCEPT !.chain = Tail(@), !.ran = TRUE, !.op = "AddController"]
       IN IF u.err # "nil"
          THEN /\ req' = [req EXCEPT ![r] =
                         [c EXCEPT !.resp = JSON(StatusInternalServerError, ctrlResInternal)]]
               /\ UNCHANGED <<uuidCount, controllerCol, issued>>
          ELSE /\ uuidCount < Cardinality(DOMAIN DevSessions) + MaxAdd
               /\ uuidCount' = uuidCount + 1
               /\ IF bind.err # "nil"
                  THEN /\ req' = [req EXCEPT ![r] =
                                 [c EXCEPT !.resp = JSON(StatusBadRequest, ctrlResInvalid),
                                           !.seenUserId = u.userId]]
                       /\ UNCHANGED <<controllerCol, issued>>
                  ELSE IF perr # "nil"
                  THEN /\ req' = [req EXCEPT ![r] =
                                 [c EXCEPT !.resp = PlanExistResponse(perr),
                                           !.seenUserId = u.userId,
                                           !.fault = pfault, !.storeErr = perr]]
                       /\ UNCHANGED <<controllerCol, issued>>
                  ELSE /\ controllerCol' = res.col
                       /\ issued' = [d \in DOMAIN res.col |->
                                       IF d \in DOMAIN issued THEN issued[d] ELSE <<>>]
                       /\ req' = [req EXCEPT ![r] =
                                 [c EXCEPT !.resp = AddControllerResponse(res.err, entity),
                                           !.seenUserId = u.userId, !.entity = entity,
                                           !.fault = fault # "none",
                                           !.storeErr = res.err]]
    /\ UNCHANGED <<sessionDb, userDb, sessionFate, planCol>>

\* Handler.UpdateController
UpdateController(r, pfault, fault) ==
    /\ NextHandler(r) = "UpdateController"
    /\ LET u == getUserId(req[r].keys)
           controllerId == req[r].param
           bind == ShouldBindJSON([NoEntity EXCEPT !.ControllerId = controllerId,
                                                   !.UserId = u.userId], req[r].ctlBody)
           entity == [bind.entity EXCEPT !.Name = TrimSpace(@)]
           perr == IF entity.Plan # ""
                   THEN PlanExist(planCol, entity.UserId, entity.Plan, pfault)
                   ELSE "nil"
           res == MongoRepoUpdateController(controllerCol, entity, fault)
           c == [req[r] EXCEPT !.chain = Tail(@), !.ran = TRUE, !.op = "UpdateController"]
       IN IF u.err # "nil"
          THEN /\ req' = [req EXCEPT ![r] =
                         [c EXCEPT !.resp = JSON(StatusInternalServerError, ctrlResInternal)]]
               /\ UNCHANGED controllerCol
          ELSE IF ~UuidParseOk(controllerId) \/ bind.err # "nil"
          THEN /\ req' = [req EXCEPT ![r] =
                         [c EXCEPT !.resp = JSON(StatusBadRequest, ctrlResInvalid),
                                   !.seenUserId = u.userId]]
               /\ UNCHANGED controllerCol
          ELSE IF perr # "nil"
          THEN /\ req' = [req EXCEPT ![r] =
                         [c EXCEPT !.resp = PlanExistResponse(perr),
                                   !.seenUserId = u.userId,
                                   !.fault = pfault, !.storeErr = perr]]
               /\ UNCHANGED controllerCol
          ELSE /\ controllerCol' = res.col
               /\ req' = [req EXCEPT ![r] =
                         [c EXCEPT !.resp = UpdateControllerResponse(res.err, entity),
                                   !.seenUserId = u.userId, !.entity = entity,
                                   !.fault = fault, !.storeErr = res.err]]
    /\ UNCHANGED <<sessionDb, userDb, uuidCount, sessionFate, issued, planCol>>

NextCtl ==
    \/ \E r \in Reqs, k \in DOMAIN DevSessions, b \in CtlBodies :
           ArriveCtl(r, "controller.POST", [present |-> TRUE, value |-> k], "", b)
    \/ \E r \in Reqs, k \in DOMAIN DevSessions, p \in CtlParams, b \in CtlBodies :
           ArriveCtl(r, "controller.PUT", [present |-> TRUE, value |-> k], p, b)
    \/ \E r \in Reqs, k \in DOMAIN DevSessions, p \in CtlParams :
           ArriveCtl(r, "controller.DELETE", [present |-> TRUE, value |-> k], p, NoCtlBody)
    \/ \E r \in Reqs, fault \in BOOLEAN : GetUser(r, fault)
    \/ \E r \in Reqs, pfault \in BOOLEAN, fault \in InsertFaults :
           AddController(r, pfault, fault)
    \/ \E r \in Reqs, pfault, fault \in BOOLEAN : UpdateController(r, pfault, fault)
    \/ \E r \in Reqs, fault \in BOOLEAN : RemoveController(r, fault)
    \/ \E r \in Reqs : Respond(r)

SpecCtl == InitCtl /\ [][NextCtl]_vars

----------------------------------------------------------------------------
(* The same handlers over the earlier MongoRepo, whose UpdateController    *)
(* replaces the document and whose RemoveController filters on the error   *)
(* value controllerNotFound.                                               *)

\* the controller of the entity, as Decode fills a Result from the document
\* and the repository copies it into the entity
DecodeEntity(entity, doc) ==
    [entity EXCEPT !.Name = doc.name, !.Desc = doc.desc, !.Plan = doc.plan]

\* MongoRepo.GetController: FindOne({_id, userId}) and Decode
MongoRepoGetControllerEarly(col, entity, fault) ==
    IF fault THEN [err |-> "mongo error", entity |-> entity]
    ELSE IF \/ entity.ControllerId \notin DOMAIN col
            \/ col[entity.ControllerId].userId # entity.UserId
    THEN [err |-> "controllerNotFound", entity |-> entity]
    ELSE [err |-> "nil", entity |-> DecodeEntity(entity, col[entity.ControllerId])]

\* MongoRepo.UpdateController: FindOneAndReplace({_id, userId},
\* {Name, Desc, Plan}); the replacement has no other key
MongoRepoUpdateControllerEarly(col, entity, fault) ==
    IF fault THEN [err |-> "mongo error", col |-> col]
    ELSE IF \/ entity.ControllerId \notin DOMAIN col
            \/ col[entity.ControllerId].userId # entity.UserId
    THEN [err |-> "controllerNotFound", col |-> col]
    ELSE [err |-> "nil",
          col |-> [col EXCEPT ![entity.ControllerId] =
                     [userId |-> "", name |-> <<>>, desc |-> "", plan |-> "",
                      token |-> <<>>, upper |-> TRUE, Name |-> entity.Name,
                      Desc |-> entity.Desc, Plan |-> entity.Plan]]]

\* MongoRepo.RemoveController: FindOneAndDelete({_id: controllerNotFound,
\* userId}); no _id is that error value, so no document matches
MongoRepoRemoveControllerEarly(col, userId, controllerId, fault) ==
    IF fault THEN [err |-> "mongo error", col |-> col]
    ELSE [err |-> "controllerNotFound", col |-> col]

\* Handler.GetController: the answer once Repo.GetController has returned
GetControllerEntityResponse(res) ==
    IF res.err = "controllerNotFound" THEN JSON(StatusNotFound, ctrlResNotFound)
    ELSE IF res.err # "nil" THEN JSON(StatusInternalServerError, ctrlResInternal)
    ELSE [JSON(StatusOK, ctrlResGet) EXCEPT !.entities = {CtlEntityJSON(res.entity)}]

ChainEarly(route) ==
    IF route = "controller.GET" THEN <<"GetUser", "GetControllerEarly">>
    ELSE IF route = "controller.PUT" THEN <<"GetUser", "UpdateControllerEarly">>
    ELSE <<"GetUser", "RemoveControllerEarly">>

\* a request with a session cookie reaches the engine
ArriveEarly(r, route, cookie, param, body) ==
    /\ req[r].pc = "idle"
    /\ Cardinality(InFlight) < MaxInFlight
    /\ cookie.present /\ cookie.value \in DOMAIN DevSessions
    /\ req' = [req EXCEPT ![r] = [IdleReq EXCEPT !.pc = "chain",
                                     !.chain = ChainEarly(route), !.cookie = cookie,
                                     !.param = param, !.ctlBody = body]]
    /\ UNCHANGED <<sessionDb, userDb, uuidCount, sessionFate, controllerCol, issued, planCol>>

\* Handler.GetController
GetControllerEarly(r, fault) ==
    /\ NextHandler(r) = "GetControllerEarly"
    /\ LET u == getUserId(req[r].keys)
           controllerId == req[r].param
           entity == [NoEntity EXCEPT !.ControllerId = controllerId, !.UserId = u.userId]
           res == MongoRepoGetControllerEarly(controllerCol, entity, fault)
           c == [req[r] EXCEPT !.chain = Tail(@), !.ran = TRUE, !.op = "GetController"]
       IN IF u.err # "nil"
          THEN req' = [req EXCEPT ![r] =
                         [c EXCEPT !.resp = JSON(StatusInternalServerError, ctrlResInternal)]]
          ELSE IF ~UuidParseOk(controllerId)
          THEN req' = [req EXCEPT ![r] =
                         [c EXCEPT !.resp = JSON(StatusBadRequest, ctrlResInvalid),
                                   !.seenUserId = u.userId]]
          ELSE req' = [req EXCEPT ![r] =
                         [c EXCEPT !.resp = GetControllerEntityResponse(res),
                                   !.seenUserId = u.userId, !.entity = entity,
                                   !.fault = fault, !.storeErr = res.err]]
    /\ UNCHANGED <<sessionDb, userDb, uuidCount, sessionFate, controllerCol, issued, planCol>>

\* Handler.UpdateController
UpdateControllerEarly(r, pfault, fault) ==
    /\ NextHandler(r) = "UpdateControllerEarly"
    /\ LET u == getUserId(req[r].keys)
           controllerId == req[r].param
           bind == ShouldBindJSON([NoEntity EXCEPT !.ControllerId = controllerId,
                                                   !.UserId = u.userId], req[r].ctlBody)
           entity == [bind.entity EXCEPT !.Name = TrimSpace(@)]
           perr == IF entity.Plan # ""
                   THEN PlanExist(planCol, entity.UserId, entity.Plan, pfault)
                   ELSE "nil"
           res == MongoRepoUpdateControllerEarly(controllerCol, entity, fault)
           c == [req[r] EXCEPT !.chain = Tail(@), !.ran = TRUE, !.op = "UpdateController"]
       IN IF u.err # "nil"
          THEN /\ req' = [req EXCEPT ![r] =
                         [c EXCEPT !.resp = JSON(StatusInternalServerError, ctrlResInternal)]]
               /\ UNCHANGED controllerCol
          ELSE IF ~UuidParseOk(controllerId) \/ bind.err # "nil"
          THEN /\ req' = [req EXCEPT ![r] =
                         [c EXCEPT !.resp = JSON(StatusBadRequest, ctrlResInvalid),
                                   !.seenUserId = u.userId]]
               /\ UNCHANGED controllerCol
          ELSE IF perr # "nil"
          THEN /\ req' = [req EXCEPT ![r] =
                         [c EXCEPT !.resp = PlanExistResponse(perr),
                                   !.seenUserId = u.userId,
                                   !.fault = pfault, !.storeErr = perr]]
               /\ UNCHANGED controllerCol
          ELSE /\ controllerCol' = res.col
               /\ req' = [req EXCEPT ![r] =
                         [c EXCEPT !.resp = UpdateControllerResponse(res.err, entity),
                                   !.seenUserId = u.userId, !.entity = entity,
                                   !.fault = fault, !.storeErr = res.err]]
    /\ UNCHANGED <<sessionDb, userDb, uuidCount, sessionFate, issued, planCol>>

\* Handler.RemoveController
RemoveControllerEarly(r, fault) ==
    /\ NextHandler(r) = "RemoveControllerEarly"
    /\ LET u == getUserId(req[r].keys)
           controllerId == req[r].param
           res == MongoRepoRemoveControllerEarly(controllerCol, u.userId,
                                                 controllerId, fault)
           c == [req[r] EXCEPT !.chain = Tail(@), !.ran = TRUE,
                               !.op = "RemoveController"]
       IN IF u.err # "nil"
          THEN /\ req' = [req EXCEPT ![r] =
                         [c EXCEPT !.resp = JSON(StatusInternalServerError, ctrlResInternal)]]
               /\ UNCHANGED <<controllerCol, issued>>
          ELSE IF ~UuidParseOk(controllerId)
          THEN /\ req' = [req EXCEPT ![r] =
                         [c EXCEPT !.resp = JSON(StatusBadRequest, ctrlResInvalid),
                                   !.seenUserId = u.userId]]
               /\ UNCHANGED <<controllerCol, issued>>
          ELSE /\ controllerCol' = res.col
               /\ issued' = [d \in DOMAIN issued \cap DOMAIN res.col |-> issued[d]]
               /\ req' = [req EXCEPT ![r] =
                         [c EXCEPT !.resp = RemoveControllerResponse(res.err),
                                   !.seenUserId = u.userId,
                                   !.fault = fault, !.storeErr = res.err]]
    /\ UNCHANGED <<sessionDb, userDb, uuidCount, sessionFate, planCol>>

NextEarly ==
    \/ \E r \in Reqs, k \in DOMAIN DevSessions, p \in CtlParams, b \in CtlBodies :
           ArriveEarly(r, "controller.PUT", [present |-> TRUE, value |-> k], p, b)
    \/ \E r \in Reqs, k \in DOMAIN DevSessions, p \in CtlParams,
          route \in {"controller.GET", "controller.DELETE"} :
           ArriveEarly(r, route, [present |-> TRUE, value |-> k], p, NoCtlBody)
    \/ \E r \in Reqs, fault \in BOOLEAN : GetUser(r, fault)
    \/ \E r \in Reqs, fault \in BOOLEAN : GetControllerEarly(r, fault)
    \/ \E r \in Reqs, pfault, fault \in BOOLEAN : UpdateControllerEarly(r, pfault, fault)
    \/ \E r \in Reqs, fault \in BOOLEAN : RemoveControllerEarly(r, fault)
    \/ \E r \in Reqs : Respond(r)

SpecEarly == InitCtl /\ [][NextEarly]_vars

----------------------------------------------------------------------------
(* The plan endpoint over the earlier plan.MongoRepo, whose filters name   *)
(* the owner key "userId".  A plan document is modelled by its owner and   *)
(* its name; the routines of a plan take no part in the filters.           *)

planResGetPlan == "plan retrieved"
planResReplacePlan == "plan replaced"
planResDeletePlan == "plan deleted"
planResInvalid == "invalid format"
planResInternal == "internal error"
planResPlanNotFound == "plan not found"

\* the plans of the collection: p1 of u1, p2 of u2
PlanPlans ==
    [p \in {"p1", "p2"} |->
        IF p = "p1" THEN [userId |-> "u1", name |-> <<"a">>]
        ELSE [userId |-> "u2", name |-> <<"b">>]]

PlanParams == {"p1", "p2", "x"}

\* the bodies of ReplacePlan: plan_id is optional
PlanBodies == [plan_id : {"", "p2"}, name : {<<"c">>, <<" ">>}]

\* uuid.Parse of a plan id, and the binding "omitempty,uuid4" of PlanId
PlanIdParseOk(planId) == planId \in {"p1", "p2", "p3"}

\* planName: the name is not blank
planName(value) == TrimSpace(value) # <<>>

\* ctx.GetString("userId"): "" when the key is not set
GetString(keys, key) == IF key \in DOMAIN keys THEN keys[key] ELSE ""

\* ctx.ShouldBindJSON(entity) of a plan Entity: plan_id and name are written
\* from the body (UserId has the tag "-"), then the bindings are validated
PlanShouldBindJSON(entity, body) ==
    LET bound == [entity EXCEPT
                    !.PlanId = IF body.plan_id # "" THEN body.plan_id ELSE @,
                    !.Name = body.name]
    IN [err |-> IF (bound.PlanId = "" \/ PlanIdParseOk(bound.PlanId))
                   /\ planName(bound.Name)
                THEN "nil" ELSE "validation",
        entity |-> bound]

\* MongoRepo.GetPlan, earlier revision: FindOne({_id: PlanId, userId: PlanId})
MongoRepoGetPlan(col, entity, fault) ==
    IF fault THEN [err |-> "mongo error", entity |-> entity]
    ELSE IF \/ entity.PlanId \notin DOMAIN col
            \/ col[entity.PlanId].userId # entity.PlanId
    THEN [err |-> "errPlanNotFound", entity |-> entity]
    ELSE [err |-> "nil",
          entity |-> [entity EXCEPT !.UserId = col[entity.PlanId].userId,
                                    !.Name = col[entity.PlanId].name]]

\* MongoRepo.ReplacePlan: FindOneAndReplace({_id, userId}, entity)
MongoRepoReplacePlan(col, entity, fault) ==
    IF fault THEN [err |-> "mongo error", col |-> col]
    ELSE IF \/ entity.PlanId \notin DOMAIN col
            \/ col[entity.PlanId].userId # entity.UserId
    THEN [err |-> "errPlanNotFound", col |-> col]
    ELSE [err |-> "nil",
          col |-> [col EXCEPT ![entity.PlanId] =
                     [userId |-> entity.UserId, name |-> entity.Name]]]

\* MongoRepo.DeletePlan: DeleteOne({_id, userId})
MongoRepoDeletePlan(col, userId, planId, fault) ==
    IF fault THEN [err |-> "mongo error", col |-> col]
    ELSE IF planId \notin DOMAIN col \/ col[planId].userId # userId
    THEN [err |-> "errPlanNotFound", col |-> col]
    ELSE [err |-> "nil", col |-> [p \in DOMAIN col \ {planId} |-> col[p]]]

\* the plan Entity as the JSON of a response (UserId has the tag "-")
PlanEntityJSON(entity) == [plan_id |-> entity.PlanId, name |-> entity.Name]

\* Handler.GetPlan / DeletePlan / ReplacePlan: the answer to a repository error
PlanErrResponse(err) ==
    IF err = "errPlanNotFound" THEN JSON(StatusNotFound, planResPlanNotFound)
    ELSE JSON(StatusInternalServerError, planResInternal)

ChainPlan(route) ==
    IF route = "plan.GET" THEN <<"GetUser", "GetPlan">>
    ELSE IF route = "plan.PUT" THEN <<"GetUser", "ReplacePlan">>
    ELSE <<"GetUser", "DeletePlan">>

InitPlan ==
    /\ sessionDb = DevSessions
    /\ userDb = [u \in UserIds |-> [id |-> u, name |-> u]]
    /\ uuidCount = Cardinality(DOMAIN DevSessions)
    /\ req = [r \in Reqs |-> IdleReq]
    /\ sessionFate = [k \in DOMAIN DevSessions |-> "live"]
    /\ controllerCol = CtlControllers
    /\ issued = [c \in DOMAIN CtlControllers |-> <<>>]
    /\ planCol = PlanPlans

\* a request with a session cookie reaches the engine
ArrivePlan(r, route, cookie, param, body) ==
    /\ req[r].pc = "idle"
    /\ Cardinality(InFlight) < MaxInFlight
    /\ cookie.present /\ cookie.value \in DOMAIN DevSessions
    /\ req' = [req EXCEPT ![r] = [IdleReq EXCEPT !.pc = "chain",
                                     !.chain = ChainPlan(route), !.cookie = cookie,
                                     !.param = param, !.planBody = body]]
    /\ UNCHANGED <<sessionDb, userDb, uuidCount, sessionFate, controllerCol, issued, planCol>>

\* Handler.GetPlan
GetPlan(r, fault) ==
    /\ NextHandler(r) = "GetPlan"
    /\ LET userId == GetString(req[r].keys, "userId")
           planId == req[r].param
           entity == [NoPlanEntity EXCEPT !.PlanId = planId, !.UserId = userId]
           res == MongoRepoGetPlan(planCol, entity, fault)
           c == [req[r] EXCEPT !.chain = Tail(@), !.ran = TRUE, !.op = "GetPlan"]
       IN IF userId = ""
          THEN req' = [req EXCEPT ![r] =
                         [c EXCEPT !.resp = JSON(StatusInternalServerError, planResInternal)]]
          ELSE IF ~PlanIdParseOk(planId)
          THEN req' = [req EXCEPT ![r] =
                         [c EXCEPT !.resp = JSON(StatusBadRequest, planResInvalid),
                                   !.seenUserId = userId]]
          ELSE IF res.err # "nil"
          THEN req' = [req EXCEPT ![r] =
                         [c EXCEPT !.resp = PlanErrResponse(res.err),
                                   !.seenUserId = userId, !.planEntity = entity,
                                   !.fault = fault, !.storeErr = res.err]]
          ELSE req' = [req EXCEPT ![r] =
                         [c EXCEPT !.resp = [JSON(StatusOK, planResGetPlan) EXCEPT
                                               !.entities = {PlanEntityJSON(res.entity)}],
                                   !.seenUserId = userId, !.planEntity = entity,
                                   !.storeErr = res.err]]
    /\ UNCHANGED <<sessionDb, userDb, uuidCount, sessionFate, controllerCol, issued, planCol>>

\* Handler.ReplacePlan
ReplacePlan(r, fault) ==
    /\ NextHandler(r) = "ReplacePlan"
    /\ LET userId == GetString(req[r].keys, "userId")
           bind == PlanShouldBindJSON([NoPlanEntity EXCEPT !.PlanId = req[r].param,
                                                           !.UserId = userId],
                                      req[r].planBody)
           entity == bind.entity
           res == MongoRepoReplacePlan(planCol, entity, fault)
           c == [req[r] EXCEPT !.chain = Tail(@), !.ran = TRUE, !.op = "ReplacePlan"]
       IN IF userId = ""
          THEN /\ req' = [req EXCEPT ![r] =
                         [c EXCEPT !.resp = JSON(StatusInternalServerError, planResInternal)]]
               /\ UNCHANGED planCol
          ELSE IF bind.err # "nil"
          THEN /\ req' = [req EXCEPT ![r] =
                         [c EXCEPT !.resp = JSON(StatusBadRequest, planResInvalid),
                                   !.seenUserId = userId]]
               /\ UNCHANGED planCol
          ELSE /\ planCol' = res.col
               /\ req' = [req EXCEPT ![r] =
                         [c EXCEPT !.resp =
                                     IF res.err # "nil" THEN PlanErrResponse(res.err)
                                     ELSE [JSON(StatusOK, planResReplacePlan) EXCEPT
                                             !.entities = {PlanEntityJSON(entity)}],
                                   !.seenUserId = userId, !.planEntity = entity,
                                   !.fault = fault, !.storeErr = res.err]]
    /\ UNCHANGED <<sessionDb, userDb, uuidCount, sessionFate, controllerCol, issued>>

\* Handler.DeletePlan
DeletePlan(r, fault) ==
    /\ NextHandler(r) = "DeletePlan"
    /\ LET userId == GetString(req[r].keys, "userId")
           planId == req[r].param
           res == MongoRepoDeletePlan(planCol, userId, planId, fault)
           c == [req[r] EXCEPT !.chain = Tail(@), !.ran = TRUE, !.op = "DeletePlan"]
       IN IF userId = ""
          THEN /\ req' = [req EXCEPT ![r] =
                         [c EXCEPT !.resp = JSON(StatusInternalServerError, planResInternal)]]
               /\ UNCHANGED planCol
          ELSE IF ~PlanIdParseOk(planId)
          THEN /\ req' = [req EXCEPT ![r] =
                         [c EXCEPT !.resp = JSON(StatusBadRequest, planResInvalid),
                                   !.seenUserId = userId]]
               /\ UNCHANGED planCol
          ELSE /\ planCol' = res.col
               /\ req' = [req EXCEPT ![r] =
                         [c EXCEPT !.resp = IF res.err # "nil" THEN PlanErrResponse(res.err)
                                            ELSE JSON(StatusOK, planResDeletePlan),
                                   !.seenUserId = userId,
                                   !.fault = fault, !.storeErr = res.err]]
    /\ UNCHANGED <<sessionDb, userDb, uuidCount, sessionFate, controllerCol, issued>>

NextPlan ==
    \/ \E r \in Reqs, k \in DOMAIN DevSessions, p \in PlanParams, b \in PlanBodies :
           ArrivePlan(r, "plan.PUT", [present |-> TRUE, value |-> k], p, b)
    \/ \E r \in Reqs, k \in DOMAIN DevSessions, p \in PlanParams,
          route \in {"plan.GET", "plan.DELETE"} :
           ArrivePlan(r, route, [present |-> TRUE, value |-> k], p, NoPlanBody)
    \/ \E r \in Reqs, fault \in BOOLEAN : GetUser(r, fault)
    \/ \E r \in Reqs, fault \in BOOLEAN : GetPlan(r, fault)
    \/ \E r \in Reqs, fault \in BOOLEAN : ReplacePlan(r, fault)
    \/ \E r \in Reqs, fault \in BOOLEAN : DeletePlan(r, fault)
    \/ \E r \in Reqs : Respond(r)

SpecPlan == InitPlan /\ [][NextPlan]_vars

----------------------------------------------------------------------------
(* Properties of the session subsystem *)

\* every character of s is white space
AllSpace(s) == \A i \in 1..Len(s) : s[i] \in {" ", "\t"}

\* the fixed body and status of a rejection by the gate
NotAuthorized(resp) ==
    /\ resp.status = 401
    /\ resp.message = "not authorized"
    /\ resp.details = ""
    /\ ~resp.setCookie

\* C1: a request whose session credential is absent, or empty after trimming
\* white space, is answered 401 {"message": "not authorized"} by the gate, its
\* chain is aborted so that the group's handler never runs, and the session
\* store is not consulted.
C1_BlankCredentialRejected ==
    \A r \in Reqs :
        (req[r].gated /\ (~req[r].cookie.present \/ AllSpace(req[r].cookie.value)))
            => /\ NotAuthorized(req[r].resp)
               /\ req[r].aborted
               /\ ~req[r].ran
               /\ req[r].lookups = 0
               /\ "userId" \notin DOMAIN req[r].keys

\* C1 witness: the gate has rejected a cookie that holds white space only
C1_Witness ==
    \E r \in Reqs :
        /\ req[r].gated
        /\ req[r].cookie.present
        /\ req[r].cookie.value = <<" ">>
        /\ req[r].aborted

\* C2: when the store reports a miss for the presented id the gate answers
\* 401 not authorized; when the store call fails otherwise it answers 500 and
\* never 401; in both cases the chain is aborted and no userId is placed in
\* the context.
C2_GateErrorMapping ==
    \A r \in Reqs :
        (req[r].gated /\ req[r].lookups = 1 /\ req[r].storeErr # "nil")
            => /\ req[r].aborted
               /\ ~req[r].ran
               /\ "userId" \notin DOMAIN req[r].keys
               /\ (req[r].storeErr = "redis.Nil" => NotAuthorized(req[r].resp))
               /\ (req[r].storeErr # "redis.Nil"
                       => /\ req[r].fault
                          /\ req[r].resp.status = 500
                          /\ req[r].resp.message # "not authorized")

\* C2 witness: two requests at the gate, one met a miss and one a store failure
C2_Witness ==
    \E r1, r2 \in Reqs :
        /\ req[r1].gated /\ req[r1].storeErr = "redis.Nil"
        /\ req[r2].gated /\ req[r2].fault /\ req[r2].resp.status = 500

\* C3: the handler of a route of the controller, plan, data and summary groups
\* runs only after the gate has resolved the request's session id, the userId
\* it reads is the owner the session store held for that id, and a userId is
\* in the context only when the gate put it there.
C3_HandlerBehindGate ==
    /\ \A route \in {"controller", "plan", "data", "summary"} :
           Head(Chain(route)) = "GetUser"
    /\ \A r \in Reqs :
        /\ req[r].ran
              => /\ req[r].gated
                 /\ req[r].storeErr = "nil"
                 /\ req[r].cookie.value \in DOMAIN sessionFate
                 /\ req[r].resolved \in UserIds
                 /\ req[r].seenUserId = req[r].resolved
        /\ "userId" \in DOMAIN req[r].keys
              => /\ req[r].gated
                 /\ req[r].keys["userId"] = req[r].resolved
                 /\ req[r].resolved # ""

\* C3 witness: a handler has run for a request the gate resolved to u2
C3_Witness ==
    \E r \in Reqs :
        /\ req[r].ran
        /\ req[r].seenUserId = "u2"
        /\ req[r].resp.status = 200

\* C4: once DeleteSession has removed a session id, the id is not in the
\* store, Resolve reports not-found for it, and every request that presents it
\* to the gate afterwards is rejected and never reaches a handler: with 401
\* whenever the store answers the lookup (a failing lookup is answered 500).
C4_DeletedSessionRejected ==
    /\ \A k \in DOMAIN sessionFate :
           sessionFate[k] = "deleted"
               => /\ k \notin DOMAIN sessionDb
                  /\ RepoGetUser(sessionDb, k, FALSE).err = "errNotFound"
    /\ \A r \in Reqs :
           (req[r].gated /\ req[r].fate = "deleted")
               => /\ req[r].aborted
                  /\ ~req[r].ran
                  /\ "userId" \notin DOMAIN req[r].keys
                  /\ (~req[r].fault => NotAuthorized(req[r].resp))
                  /\ (req[r].fault => req[r].resp.status = 500)

\* C4 witness: a session was created and deleted, and a later request that
\* presented its id has been answered 401
C4_Witness ==
    \E r \in Reqs :
        /\ req[r].gated
        /\ req[r].fate = "deleted"
        /\ req[r].resp.status = 401

\* C5: two requests that present an absent session id, and differ only in
\* whether the id expired, was deleted or never existed, get the same
\* response from the gate: 401 with the same body.
C5_AbsentIdsIndistinguishable ==
    \A r1, r2 \in Reqs :
        (/\ req[r1].gated /\ req[r1].lookups = 1 /\ req[r1].fate # "live"
         /\ req[r2].gated /\ req[r2].lookups = 1 /\ req[r2].fate # "live"
         /\ req[r1].fault = req[r2].fault)
            => /\ req[r1].resp = req[r2].resp
               /\ req[r1].aborted = req[r2].aborted
               /\ (~req[r1].fault => NotAuthorized(req[r1].resp))

\* C5 witness: the gate has answered for an expired id and for an id that was
\* deleted or never existed
C5_Witness ==
    \E r1, r2 \in Reqs :
        /\ req[r1].gated /\ req[r1].lookups = 1 /\ req[r1].fate = "expired"
        /\ req[r2].gated /\ req[r2].lookups = 1 /\ req[r2].fate \in {"deleted", "never"}
        /\ ~req[r1].fault /\ ~req[r2].fault

\* C6: under every interleaving of CreateSession, DeleteSession and the
\* gate's lookups, a session id in the session store resolves to an owner for
\* whom an identity record keyed by that owner exists in the user store.
C6_SessionImpliesIdentity ==
    \A k \in DOMAIN sessionDb : sessionDb[k] \in DOMAIN userDb

\* C7: when CreateSession fails at the identity upsert or at the session-key
\* set, the new session id is not in the session store and the handler answers
\* 500 without a session cookie; and a session id is in the store only once
\* the identity upsert of its request has completed.
C7_FailedCreateLeavesNoSession ==
    \A r \in Reqs :
        /\ req[r].storeErr \in {"mongo error", "redis error"}
              => /\ req[r].sessionId \notin DOMAIN sessionDb
                 /\ req[r].resp.status = 500
                 /\ ~req[r].resp.setCookie
        /\ req[r].pc = "CreateSession.Set"
              => /\ req[r].sessionId \notin DOMAIN sessionDb
                 /\ req[r].userEntity.UserId \in DOMAIN userDb
        /\ (req[r].sessionId # <<>> /\ req[r].sessionId \in DOMAIN sessionDb)
              => /\ req[r].userEntity.UserId \in DOMAIN userDb
                 /\ req[r].storeErr = ""
                 /\ req[r].resp.status = 201

\* C7 witness: one creation failed at the session-key set after its upsert,
\* another failed at the upsert
C7_Witness ==
    \E r1, r2 \in Reqs :
        /\ req[r1].storeErr = "redis error"
        /\ req[r1].userEntity.UserId \in DOMAIN userDb
        /\ req[r2].storeErr = "mongo error"

\* the step is request r running Handler.DeleteSession
DeleteStep(r) == NextHandler(r) = "DeleteSession" /\ req'[r] # req[r]

C9_SessionOwnerStable ==
    /\ [](\A k \in DOMAIN sessionDb : sessionDb[k] \in UserIds)
    /\ [][\A k \in DOMAIN sessionDb \cap DOMAIN sessionDb' :
            sessionDb'[k] # sessionDb[k]
                => \E r \in Reqs : /\ req[r].pc = "CreateSession.Set"
                                   /\ req[r].sessionId = k
                                   /\ req'[r].resp.status = 201]_vars

\* C9 witness: a session of u1 is in the store after another session was
\* deleted and a third step expired or created one
C9_Witness ==
    \E k1, k2 \in DOMAIN sessionFate :
        /\ k1 \in DOMAIN sessionDb
        /\ sessionDb[k1] = "u1"
        /\ sessionFate[k2] \in {"deleted", "expired"}

----------------------------------------------------------------------------
(* Properties of the device tokens *)

\* the plaintexts whose digests were stored for controller d, in order
IssuedFor(d) == IF d \in DOMAIN issued THEN issued[d] ELSE <<>>

RoundTripKeys == {"somekey", "otherkey"}

RoundTripPlaintexts == {<<>>, <<"z">>, <<"9">>, <<"3">>, <<"4">>, <<"3", "4">>}

ForeignVerify(r) ==
    /\ req[r].op = "VerifyToken"
    /\ req[r].param = "c1"
    /\ req[r].seenUserId = "u2"
    /\ Len(req[r].token) = 1 /\ req[r].token[1] \in {"3", "4", "5", "9"}
    /\ ~req[r].fault

Plaintexts == {<<d>> : d \in {"3", "4", "5", "6"}} \cap {UuidStr(n) : n \in 1..uuidCount}

\* C13: the token stored for a controller is empty or the HMAC-SHA256 digest,
\* under the backend key, of a plaintext that GenerateToken issued for it; a
\* plaintext is never what is stored.
C13_StoredTokenIsDigest ==
    \A d \in DOMAIN controllerCol :
        /\ controllerCol[d].token \notin Plaintexts
        /\ \/ controllerCol[d].token = <<>>
           \/ \E n \in 1..Len(IssuedFor(d)) :
                 controllerCol[d].token = <<"hmac-sha256", "somekey">> \o issued[d][n]

\* C14: a plaintext token is in the response of the GenerateToken request
\* that drew it and in no other response: not in the token_id of another
\* request, and not in a controller entity that GetController or
\* ListControllers returns.
C14_PlaintextOnlyInIssueResponse ==
    \A r \in Reqs :
        /\ req[r].resp.token_id # <<>>
              => /\ req[r].op = "GenerateToken"
                 /\ req[r].resp.token_id = req[r].tokenId
                 /\ \A r2 \in Reqs \ {r} : req[r2].resp.token_id # req[r].resp.token_id
        /\ \A en \in req[r].resp.entities : en.token \notin Plaintexts

\* requests r1 and r2 are two completed issuances for the same controller,
\* which is still there, and no other issuance followed them
TwoIssued(r1, r2) ==
    /\ r1 # r2
    /\ req[r1].op = "GenerateToken" /\ req[r1].resp.status = 200
    /\ req[r2].op = "GenerateToken" /\ req[r2].resp.status = 200
    /\ req[r1].param = req[r2].param
    /\ req[r1].param \in DOMAIN controllerCol
    /\ Latest(req[r1].param) \in {req[r1].resp.token_id, req[r2].resp.token_id}

IssueStep(r) == req[r].pc = "GenerateToken.Repo" /\ req'[r] # req[r]

\* C16: an issuance for a controller that does not exist or is not the
\* caller's is answered 404 "not found" without a token and changes no stored
\* credential; an issuance for a controller of the caller is answered 200 with
\* the plaintext generated, and only that controller's credential changes.
C16_IssueNotFoundOrOk ==
    [][\A r \in Reqs :
          (IssueStep(r) /\ ~req'[r].fault) =>
              LET d == req[r].param
                  owned == /\ d \in DOMAIN controllerCol
                           /\ controllerCol[d].userId = req[r].keys["userId"]
              IN IF owned
                 THEN /\ req'[r].resp.status = 200
                      /\ req'[r].resp.message = "controller's token generated"
                      /\ req'[r].resp.token_id = req[r].tokenId
                      /\ req[r].tokenId # <<>>
                      /\ DOMAIN controllerCol' = DOMAIN controllerCol
                      /\ controllerCol'[d].token = <<"hmac-sha256", "somekey">> \o req[r].tokenId
                      /\ \A c \in DOMAIN controllerCol \ {d} :
                            controllerCol'[c] = controllerCol[c]
                 ELSE /\ req'[r].resp.status = 404
                      /\ req'[r].resp.message = "not found"
                      /\ req'[r].resp.token_id = <<>>
                      /\ controllerCol' = controllerCol]_vars

\* C16 witness: u2 has asked a token for c1 of u1 and got 404, the credential
\* of c1 being the one u1 was issued
C16_Witness ==
    \E r1, r2 \in Reqs :
        /\ req[r1].op = "GenerateToken" /\ req[r1].param = "c1"
        /\ req[r1].seenUserId = "u2"
        /\ req[r1].resp.status = 404
        /\ req[r2].op = "GenerateToken" /\ req[r2].param = "c1"
        /\ req[r2].seenUserId = "u1"
        /\ req[r2].resp.status = 200
        /\ controllerCol["c1"].token = req[r2].hashedToken

----------------------------------------------------------------------------
(* Properties of the session handlers' outcomes *)

\* request r is a session creation that has been answered
Created(r) == req[r].code # <<>> /\ req[r].resp.status # 0

\* C17: a session creation with a valid access code is answered 201 with a
\* sessionId cookie of max-age 28800 whose value was set in the session
\* store; one with an empty access code, or with a code the provider rejects,
\* is answered 400; an adapter failure or a store failure is answered 500; in
\* the 400 and 500 cases no session is created.
C17_CreateSessionOutcome ==
    \A r \in Reqs :
        Created(r) =>
            LET code == req[r].code
                valid == code \in {<<"a">>, <<"b">>}
                empty == AllSpace(code)
                adapterFailed == req[r].exchangeErr = "http error"
                storeFailed == req[r].storeErr \in {"mongo error", "redis error"}
            IN /\ (valid /\ ~adapterFailed /\ ~storeFailed)
                     => /\ req[r].resp.status = 201
                        /\ req[r].resp.setCookie
                        /\ req[r].resp.cookieValue = req[r].sessionId
                        /\ req[r].resp.maxAge = 28800
                        /\ req[r].sessionId \in DOMAIN sessionFate
               /\ empty => req[r].resp.status = 400
               /\ (~valid /\ ~empty /\ ~adapterFailed) => req[r].resp.status = 400
               /\ (~empty /\ (adapterFailed \/ storeFailed)) => req[r].resp.status = 500
               /\ req[r].resp.status \in {400, 500}
                     => /\ ~req[r].resp.setCookie
                        /\ req[r].sessionId \notin DOMAIN sessionFate

\* C18: a session creation calls the identity exchange at most once: not at
\* all when the access code fails validation, once otherwise, and an error of
\* the exchange ends the request without another call.
C18_ExchangeAtMostOnce ==
    \A r \in Reqs :
        /\ req[r].exchanges \in {0, 1}
        /\ (Created(r) /\ AllSpace(req[r].code))
              => /\ req[r].exchanges = 0
                 /\ req[r].exchangeErr = ""
        /\ (Created(r) /\ ~AllSpace(req[r].code)) => req[r].exchanges = 1
        /\ req[r].exchangeErr \notin {"", "nil"}
              => /\ req[r].exchanges = 1
                 /\ req[r].resp.status # 0
                 /\ NextHandler(r) = ""

\* C18 witness: one creation was answered after a rejected code and one call
\* of the exchange, another after a blank code and no call
C18_Witness ==
    \E r1, r2 \in Reqs :
        /\ Created(r1) /\ req[r1].code = <<"x">>
        /\ req[r1].exchanges = 1
        /\ req[r1].exchangeErr \notin {"", "nil", "http error"}
        /\ Created(r2) /\ req[r2].code = <<" ">>
        /\ req[r2].exchanges = 0

\* the step is request r running a DeleteSession handler
DeleteSessionStep(r) ==
    /\ NextHandler(r) \in {"DeleteSession", "CredDeleteSession", "HdrDeleteSession"}
    /\ req'[r] # req[r]

\* C19: a session deletion whose credential is absent or blank is answered 400
\* without a call of the store; with a credential it is answered 200 whether
\* or not the session id is in the store, and 500 only on a store failure.
C19_DeleteSessionOutcome ==
    [][\A r \in Reqs :
         DeleteSessionStep(r) =>
             LET k == req[r].cookie.value
                 blank == ~req[r].cookie.present \/ AllSpace(k)
             IN /\ blank => /\ req'[r].resp.status = 400
                            /\ req'[r].lookups = req[r].lookups
                            /\ sessionDb' = sessionDb
                /\ ~blank => /\ req'[r].resp.status \in {200, 500}
                             /\ req'[r].lookups = req[r].lookups + 1
                             /\ req'[r].resp.status = 500 <=> req'[r].fault
                             /\ ~req'[r].fault => req'[r].resp.status = 200]_vars

----------------------------------------------------------------------------
(* Properties of the verification's answer                                 *)

\* the step is request r running Handler.VerifyToken on a well-formed
\* request, with the store answering
VerifyStep(r) ==
    /\ NextHandler(r) = "VerifyToken"
    /\ req'[r] # req[r]
    /\ "userId" \in DOMAIN req[r].keys
    /\ UuidParseOk(req[r].param)
    /\ BindTokenOk(req[r].token)
    /\ ~req'[r].fault

\* the controller named by r is one of the caller's
VerifyKnown(r) ==
    /\ req[r].param \in DOMAIN controllerCol
    /\ controllerCol[req[r].param].userId = req[r].keys["userId"]

\* the token r presents is the one whose digest is stored
VerifyCorrect(r) ==
    controllerCol[req[r].param].token = HashedToken(Key, req[r].token)

VerifyAnyStep(r) ==
    /\ NextHandler(r) \in {"VerifyToken", "PathVerifyToken"}
    /\ req'[r] # req[r]
    /\ "userId" \in DOMAIN req[r].keys

\* C21: a verification whose controllerId or token is not a uuid is answered
\* 400 "invalid values" without a call of the repository; otherwise a result
\* of controller-not-found is answered 404 "not found", token-incorrect 400
\* "token incorrect", nil 200 "token is correct", and anything else 500.
C21_VerifyTokenMapping ==
    [][\A r \in Reqs :
         VerifyAnyStep(r) =>
             LET valid == UuidParseOk(req[r].param) /\ BindTokenOk(req[r].token)
                 resp == req'[r].resp
                 err == req'[r].storeErr
             IN /\ resp.status \in {200, 400, 404, 500}
                /\ ~valid => /\ resp.status = 400
                             /\ resp.message = "invalid values"
                             /\ req'[r].hashedToken = <<>>
                             /\ req'[r].storeErr = req[r].storeErr
                /\ valid =>
                     /\ req'[r].hashedToken # <<>>
                     /\ err = "controllerNotFound"
                           => resp.status = 404 /\ resp.message = "not found"
                     /\ err = "tokenIncorrect"
                           => resp.status = 400 /\ resp.message = "token incorrect"
                     /\ err = "nil"
                           => resp.status = 200 /\ resp.message = "token is correct"
                     /\ err \notin {"controllerNotFound", "tokenIncorrect", "nil"}
                           => resp.status = 500]_vars

----------------------------------------------------------------------------
(* Properties of the error answers                                         *)

\* request r was answered 500 by the gate or by a session handler, after a
\* failure of the identity exchange or of a store
InternalFailure(r) ==
    /\ req[r].resp.status = 500
    /\ ~req[r].ran
    /\ \/ req[r].fault
       \/ req[r].storeErr \notin {"", "nil"}
       \/ req[r].exchangeErr \notin {"", "nil"}

\* C22: whichever store or adapter error occurred, the answer is the one
\* generic internal-error response: no detail of the error is in it, and two
\* requests that failed on different errors got the same status and body.
C22_InternalErrorsCollapse ==
    \A r1, r2 \in Reqs :
        (InternalFailure(r1) /\ InternalFailure(r2))
            => /\ req[r1].resp.details = ""
               /\ req[r1].resp = req[r2].resp

----------------------------------------------------------------------------
(* Properties of the digest comparison                                     *)

\* the repository has compared the digest of r's token with the stored one
Compared(r) ==
    /\ req[r].op = "VerifyToken"
    /\ req[r].resp.status # 0
    /\ req[r].storeErr \in {"tokenIncorrect", "nil"}
    /\ Len(req[r].hashedToken) = DigestLen

\* C23: the comparison of the recomputed digest with the stored one reads
\* every byte whatever the digests are; it never stops at the first
\* difference.
C23_ConstantTimeCompare ==
    \A r \in Reqs : Compared(r) => req[r].examined = DigestLen

----------------------------------------------------------------------------
(* Properties of the controller handlers                                   *)

\* the step is request r running Handler.AddController
AddStep(r) == NextHandler(r) = "AddController" /\ req'[r] # req[r]

\* C26: AddController is answered 201 only after the controller was inserted,
\* as the document of the entity; a duplicate is answered 400 "duplicate
\* name", any other failure of the write 500; without a 201 no controller is
\* added.
C26_AddOnlyIfInserted ==
    [][\A r \in Reqs :
         AddStep(r) =>
             LET resp == req'[r].resp
                 id == resp.controller_id
             IN /\ resp.status = 201
                     => /\ id \notin DOMAIN controllerCol
                        /\ id \in DOMAIN controllerCol'
                        /\ controllerCol'[id] = ControllerDoc(req'[r].entity)
                /\ resp.status # 201 => controllerCol' = controllerCol
                /\ req'[r].storeErr = "duplicateName"
                     => resp.status = 400 /\ resp.message = "duplicate name"
                /\ (req'[r].entity # NoEntity /\ req'[r].fault)
                     => resp.status \in {400, 500}]_vars

\* the step is request r running Handler.UpdateController
UpdateStep(r) == NextHandler(r) = "UpdateController" /\ req'[r] # req[r]

\* C28: the entity AddController or UpdateController passes to the
\* repository has the userId the gate put in the context as its owner, and
\* for an update the path parameter as its ControllerId, whatever the JSON
\* body holds.
C28_EntityFromContextAndPath ==
    [][\A r \in Reqs :
         ((AddStep(r) \/ UpdateStep(r)) /\ req'[r].entity # NoEntity)
             => /\ req'[r].entity.UserId = req[r].keys["userId"]
                /\ UpdateStep(r) => req'[r].entity.ControllerId = req[r].param]_vars

\* a controller of the collection that the user owns
Owned(col, userId, controllerId) ==
    controllerId \in DOMAIN col /\ col[controllerId].userId = userId

RemoveStep(r) ==
    /\ NextHandler(r) \in {"RemoveController", "RemoveControllerEarly"}
    /\ req'[r] # req[r]
    /\ "userId" \in DOMAIN req[r].keys

UpdateAnyStep(r) ==
    /\ NextHandler(r) \in {"UpdateController", "UpdateControllerEarly"}
    /\ req'[r] # req[r]

GetEntityStep(r) == NextHandler(r) = "GetControllerEarly" /\ req'[r] # req[r]

\* the controller id a handler step hands to the repository
TargetId(r) ==
    IF req'[r].entity # NoEntity THEN req'[r].entity.ControllerId ELSE req[r].param

\* C24: without a store failure, RemoveController of a controller the user
\* owns deletes it and is answered 200, and of any other id is answered 404
\* with the collection unchanged; a later GetController, UpdateController or
\* RemoveController that reaches the repository with an id the collection
\* does not hold is answered 404.
C24_RemoveDeletesOwned ==
    [][\A r \in Reqs :
         /\ (RemoveStep(r) /\ UuidParseOk(req[r].param) /\ ~req'[r].fault)
                => IF Owned(controllerCol, req[r].keys["userId"], req[r].param)
                   THEN /\ req'[r].resp.status = StatusOK
                        /\ DOMAIN controllerCol' = DOMAIN controllerCol \ {req[r].param}
                        /\ \A c \in DOMAIN controllerCol' :
                               controllerCol'[c] = controllerCol[c]
                   ELSE /\ req'[r].resp.status = StatusNotFound
                        /\ controllerCol' = controllerCol
         /\ ((RemoveStep(r) \/ UpdateAnyStep(r) \/ GetEntityStep(r))
                /\ "userId" \in DOMAIN req[r].keys
                /\ UuidParseOk(req[r].param) /\ ~req'[r].fault
                /\ req'[r].resp.status # StatusBadRequest
                /\ TargetId(r) \notin DOMAIN controllerCol)
                => req'[r].resp.status = StatusNotFound]_vars

\* C25: an UpdateController that reaches the repository without a store
\* failure adds no controller; for a controller the user does not own it is
\* answered 404 with the collection unchanged; when it is answered 200, a
\* GetController of the same (userId, controllerId) finds the controller with
\* the name, desc and plan that were passed.
C25_UpdateNeverCreates ==
    [][\A r \in Reqs :
         (UpdateAnyStep(r) /\ req'[r].entity # NoEntity /\ ~req'[r].fault)
             => LET ent == req'[r].entity
                    got == MongoRepoGetControllerEarly(controllerCol',
                               [NoEntity EXCEPT !.ControllerId = ent.ControllerId,
                                                !.UserId = ent.UserId], FALSE)
                IN /\ DOMAIN controllerCol' = DOMAIN controllerCol
                   /\ ~Owned(controllerCol, ent.UserId, ent.ControllerId)
                          => /\ req'[r].resp.status = StatusNotFound
                             /\ controllerCol' = controllerCol
                   /\ req'[r].resp.status = StatusOK
                          => /\ got.err = "nil"
                             /\ got.entity.Name = ent.Name
                             /\ got.entity.Desc = ent.Desc
                             /\ got.entity.Plan = ent.Plan]_vars

\* C27: an UpdateController answered 200 leaves the userId and the token
\* digest of the stored controller as they were.
C27_UpdateKeepsOwnerAndToken ==
    [][\A r \in Reqs :
         (UpdateAnyStep(r) /\ req'[r].resp.status = StatusOK)
             => LET id == req'[r].entity.ControllerId
                IN /\ id \in DOMAIN controllerCol'
                   /\ controllerCol'[id].userId = controllerCol[id].userId
                   /\ controllerCol'[id].token = controllerCol[id].token]_vars

\* the identity keys that the step creating a session has verified: the sub
\* of the claims Google returned for the access code, or the _id of the user
\* document that matches the posted name and password
VerifiedIdentityKeys(r) ==
    IF req[r].pc = "CreateSession.Set"
    THEN {GoogleClaims(req[r].code).sub}
    ELSE {id \in DOMAIN userDb : /\ userDb[id].name = req[r].body.Name
                                 /\ userDb[id].password = req[r].body.Password}

\* C29: the owner stored under a new session id is the key of the identity
\* that was verified for the request, whatever user_id the body carries.
C29_OwnerIsVerifiedIdentity ==
    [][\A r \in Reqs :
         (/\ req[r].pc \in {"CreateSession.Set", "CredCreateSession.Set"}
          /\ req'[r].pc # req[r].pc
          /\ req[r].sessionId \in DOMAIN sessionDb')
             => sessionDb'[req[r].sessionId] \in VerifiedIdentityKeys(r)]_vars

GetPlanStep(r) == NextHandler(r) = "GetPlan" /\ req'[r] # req[r]

\* the documents of a collection that the user does not own are in it as
\* they were
OthersUntouched(col, colNext, userId) ==
    \A id \in DOMAIN col :
        col[id].userId # userId => id \in DOMAIN colNext /\ colNext[id] = col[id]

\* C30 (reads): without a store failure, a GetController or GetPlan with a
\* valid id is answered 200 with the stored resource exactly when the
\* resource exists and is owned by the userId of the context.
C30_GetIffOwned ==
    \A r \in Reqs :
        /\ (GetEntityStep(r) /\ "userId" \in DOMAIN req[r].keys
               /\ UuidParseOk(req[r].param) /\ ~req'[r].fault)
              => /\ req'[r].resp.status = StatusOK
                       <=> Owned(controllerCol, req[r].keys["userId"], req[r].param)
                 /\ req'[r].resp.status = StatusOK
                       => req'[r].resp.entities =
                            {[controller_id |-> req[r].param,
                              name |-> controllerCol[req[r].param].name,
                              desc |-> controllerCol[req[r].param].desc,
                              plan |-> controllerCol[req[r].param].plan]}
        /\ (GetPlanStep(r) /\ "userId" \in DOMAIN req[r].keys
               /\ PlanIdParseOk(req[r].param) /\ ~req'[r].fault)
              => /\ req'[r].resp.status = StatusOK
                       <=> Owned(planCol, req[r].keys["userId"], req[r].param)
                 /\ req'[r].resp.status = StatusOK
                       => req'[r].resp.entities =
                            {[plan_id |-> req[r].param,
                              name |-> planCol[req[r].param].name]}

\* C30 (writes): a step of a request leaves every controller and every plan
\* that the userId of its context does not own in the store, unchanged.
C30_OthersUntouched ==
    \A r \in Reqs :
        (req'[r] # req[r] /\ "userId" \in DOMAIN req[r].keys)
            => /\ OthersUntouched(controllerCol, controllerCol', req[r].keys["userId"])
               /\ OthersUntouched(planCol, planCol', req[r].keys["userId"])

\* C30: GetController and GetPlan return a resource iff it exists and is
\* owned by the userId of the context, and ReplacePlan, DeletePlan,
\* UpdateController and RemoveController never modify or delete a resource of
\* another user.
C30_OwnerIsolation == [][C30_GetIffOwned /\ C30_OthersUntouched]_vars

====
